---- MODULE Spec2Model ----
(***************************************************************************)
(* Verification model of the intelligent-scheduler backend:                *)
(*   search.py           A* branch-and-bound schedule optimizer            *)
(*   inference.py        Bayesian timing optimizer, reminder policy,       *)
(*                       rule matcher, decision engine, apply_feedback     *)
(*   learning_service.py feedback recording                                *)
(*   main.py             the /feedback and /infer handlers                 *)
(*   calendar_parser.py  the reminder lead time of a synced event          *)
(*   models.py           tables and request/response schemas               *)
(*                                                                         *)
(* Rewards, weights and confidences are floats in the program.  Here a     *)
(* reward is an integer number of reward units, a rule weight is an        *)
(* integer number of hundredths and alpha/beta are integers (the program   *)
(* only ever adds 1.0 to them).  Time is counted in half minutes so that   *)
(* the truncation in int(total_seconds() / 60) is visible.                 *)
(***************************************************************************)
EXTENDS Integers, Sequences, FiniteSets, TLC

VARIABLES
    candidates,      \* search: the list handed to optimize_schedule
    max_nodes,       \* search: AStarScheduler.max_nodes
    enable_pruning,  \* search: AStarScheduler.enable_pruning
    search_result,   \* search: outcome of the last optimize_schedule call
    rules,           \* table task_rules: rule id -> TaskRuleDB row
    beliefs,         \* table bayesian_timing_parameters, rows in insertion order
    feedback_log,    \* table feedback_logs, rows in insertion order
    events,          \* table calendar_events, rows in primary-key order
    now,             \* the server clock datetime.utcnow(), in half minutes
    last,            \* the last request: its number, operation, arguments and response
    sessions         \* the requests in flight: position and objects loaded in the db session

searchVars == <<candidates, max_nodes, enable_pruning, search_result>>
storeVars == <<rules, beliefs, feedback_log, events>>
vars == <<candidates, max_nodes, enable_pruning, search_result,
          rules, beliefs, feedback_log, events, now, last, sessions>>

(***************************************************************************)
(* Bounds of the model.                                                    *)
(***************************************************************************)
MaxCands == 2        \* candidates per search input
MaxOpts == 2         \* options per candidate
MaxReward == 2       \* largest reward, in reward units
MinReward == 0 - 1   \* smallest reward, in reward units (negative rewards)
MaxCalls == 3        \* requests per behaviour of the feedback specification

(***************************************************************************)
(* Python's None.  Windows are minutes >= 0, so -1 is free to stand for    *)
(* the absent window of a skipped task and for an unset datetime.          *)
(***************************************************************************)
None == 0 - 1

\* BayesianTimingOptimizer.TIMING_WINDOWS, in declaration order
TIMING_WINDOWS == <<60, 30, 10>>

\* default node budget of AStarScheduler / optimize_schedule
DEFAULT_MAX_NODES == 10000

\* F applied to the value of v; v is evaluated once
Let(v, F(_)) == CHOOSE y \in {F(x) : x \in {v}} : TRUE

RECURSIVE SeqsUpTo(_, _)
\* all sequences over S of length 0..n
SeqsUpTo(S, n) ==
    IF n = 0 THEN {<<>>}
    ELSE LET shorter == SeqsUpTo(S, n - 1)
         IN shorter \cup {Append(s, x) : s \in {t \in shorter : Len(t) = n - 1}, x \in S}

(***************************************************************************)
(* search.py: TaskOption, TaskCandidate                                    *)
(***************************************************************************)
\* a TaskOption: timing_window_minutes and expected_reward
TaskOption(w, r) == [timing_window_minutes |-> w, expected_reward |-> r]

\* a TaskCandidate: task_id and its option list
TaskCandidate(id, opts) == [task_id |-> id, options |-> opts]

(***************************************************************************)
(* The heap entries of AStarScheduler.search are the tuples                *)
(*   (priority, idx, accumulated_reward, schedule)                         *)
(* and heapq orders them with Python's tuple "<": the first component that *)
(* differs decides; schedules are lists of (task_id, window-or-None)       *)
(* tuples and comparing an int window with None raises TypeError.          *)
(***************************************************************************)
HeapEntry(p, i, a, s) == [priority |-> p, idx |-> i, acc |-> a, schedule |-> s]

\* first position at which two schedule lists differ, 0 if one is a prefix
FirstDiff(s, t) ==
    LET m == IF Len(s) < Len(t) THEN Len(s) ELSE Len(t)
        D == {i \in 1..m : s[i] # t[i]}
    IN IF D = {} THEN 0 ELSE CHOOSE i \in D : \A j \in D : i <= j

\* (task_id, window) < (task_id, window) raises when the ids agree and
\* exactly one window is None
PairLtRaises(x, y) == x[1] = y[1] /\ ((x[2] = None) # (y[2] = None))

PairLt(x, y) == IF x[1] # y[1] THEN x[1] < y[1] ELSE x[2] < y[2]

ScheduleLtRaises(s, t) ==
    LET i == FirstDiff(s, t) IN i # 0 /\ PairLtRaises(s[i], t[i])

ScheduleLt(s, t) ==
    LET i == FirstDiff(s, t)
    IN IF i = 0 THEN Len(s) < Len(t) ELSE PairLt(s[i], t[i])

EntryLtRaises(x, y) ==
    /\ x.priority = y.priority
    /\ x.idx = y.idx
    /\ x.acc = y.acc
    /\ ScheduleLtRaises(x.schedule, y.schedule)

EntryLt(x, y) ==
    IF x.priority # y.priority THEN x.priority < y.priority
    ELSE IF x.idx # y.idx THEN x.idx < y.idx
    ELSE IF x.acc # y.acc THEN x.acc < y.acc
    ELSE ScheduleLt(x.schedule, y.schedule)

(***************************************************************************)
(* heapq.heappush / heapq.heappop as called at search.py 157, 163, 185,    *)
(* 190.  Positions are Python's (0-based); h[pos + 1] is heap[pos].        *)
(* Each operator returns the heap and whether a comparison raised.         *)
(***************************************************************************)
RECURSIVE SiftDown(_, _, _, _)
SiftDown(h, startpos, pos, newitem) ==
    IF pos > startpos
    THEN LET parentpos == (pos - 1) \div 2
             parent == h[parentpos + 1]
         IN IF EntryLtRaises(newitem, parent)
            THEN [heap |-> h, raised |-> TRUE]
            ELSE IF EntryLt(newitem, parent)
                 THEN SiftDown([h EXCEPT ![pos + 1] = parent], startpos, parentpos, newitem)
                 ELSE [heap |-> [h EXCEPT ![pos + 1] = newitem], raised |-> FALSE]
    ELSE [heap |-> [h EXCEPT ![pos + 1] = newitem], raised |-> FALSE]

HeapPush(h, item) == SiftDown(Append(h, item), 0, Len(h), item)

RECURSIVE SiftUp(_, _, _, _)
SiftUp(h, startpos, pos, newitem) ==
    LET endpos == Len(h)
        childpos == 2 * pos + 1
        rightpos == childpos + 1
    IN IF childpos < endpos
       THEN IF rightpos < endpos /\ EntryLtRaises(h[childpos + 1], h[rightpos + 1])
            THEN [heap |-> h, raised |-> TRUE]
            ELSE LET c == IF rightpos < endpos /\ ~EntryLt(h[childpos + 1], h[rightpos + 1])
                          THEN rightpos ELSE childpos
                 IN SiftUp([h EXCEPT ![pos + 1] = h[c + 1]], startpos, c, newitem)
       ELSE SiftDown([h EXCEPT ![pos + 1] = newitem], startpos, pos, newitem)

\* returns the popped item, the remaining heap and whether a comparison raised
HeapPop(h) ==
    LET lastelt == h[Len(h)]
        rest == SubSeq(h, 1, Len(h) - 1)
    IN IF rest = <<>>
       THEN [item |-> lastelt, heap |-> rest, raised |-> FALSE]
       ELSE LET r == SiftUp([rest EXCEPT ![1] = lastelt], 0, 0, lastelt)
            IN [item |-> rest[1], heap |-> r.heap, raised |-> r.raised]

(***************************************************************************)
(* search.py: AStarScheduler.search                                        *)
(***************************************************************************)
\* lines 146-149: the largest option reward of a task, never below 0.0
BestOptionReward(task) ==
    LET R == {task.options[k].expected_reward : k \in 1..Len(task.options)}
        P == {r \in R : r > 0}
    IN IF P = {} THEN 0 ELSE CHOOSE r \in P : \A q \in P : q <= r

RECURSIVE MaxRewardFromAt(_, _)
\* max_reward_from[i] for the 0-based index i in 0..n
MaxRewardFromAt(cands, i) ==
    IF i >= Len(cands) THEN 0
    ELSE MaxRewardFromAt(cands, i + 1) + BestOptionReward(cands[i + 1])

MaxRewardFrom(cands) == [i \in 0..Len(cands) |-> MaxRewardFromAt(cands, i)]

RECURSIVE PushOptions(_, _, _, _, _)
\* lines 181-185: push one child per option of the current task, in order
PushOptions(pqr, node, task, k, mrf) ==
    IF pqr.raised \/ k > Len(task.options) THEN pqr
    ELSE LET option == task.options[k]
             new_accumulated == node.acc + option.expected_reward
             new_schedule == Append(node.schedule, <<task.task_id, option.timing_window_minutes>>)
             new_priority == 0 - (new_accumulated + mrf[node.idx + 1])
         IN PushOptions(HeapPush(pqr.heap, HeapEntry(new_priority, node.idx + 1, new_accumulated, new_schedule)),
                        node, task, k + 1, mrf)

\* the skipping child without its (task_id, None) entry
PushSkipMutant(pqr, node, task, mrf) ==
    IF pqr.raised THEN pqr
    ELSE HeapPush(pqr.heap,
                  HeapEntry(0 - (node.acc + mrf[node.idx + 1]), node.idx + 1, node.acc,
                            node.schedule))

\* lines 187-190: push the child that skips the current task
PushSkip(pqr, node, task, mrf) ==
    IF pqr.raised THEN pqr
    ELSE HeapPush(pqr.heap,
                  HeapEntry(0 - (node.acc + mrf[node.idx + 1]), node.idx + 1, node.acc,
                            Append(node.schedule, <<task.task_id, None>>)))

\* the pruning test without the wait for a first complete schedule
PruneMutant(prune, st, node, mrf) ==
    prune /\ node.acc + mrf[node.idx] <= st.best_reward

\* lines 173-176: upper-bound pruning test of a popped node
Prune(prune, st, node, mrf) ==
    prune /\ st.has_best /\ node.acc + mrf[node.idx] <= st.best_reward

RECURSIVE SearchLoop(_, _, _, _, _)
\* lines 162-190: the while loop, one recursion per iteration
SearchLoop(cands, mrf, maxn, prune, st) ==
    IF st.raised \/ st.pq = <<>> \/ ~(st.nodes_explored < maxn) THEN st
    ELSE LET pop == HeapPop(st.pq)
             node == pop.item
             st1 == [st EXCEPT !.pq = pop.heap, !.nodes_explored = @ + 1]
         IN IF pop.raised THEN [st EXCEPT !.raised = TRUE]
            ELSE IF node.idx = Len(cands)
            THEN SearchLoop(cands, mrf, maxn, prune,
                     IF ~st1.has_best \/ node.acc > st1.best_reward
                     THEN [st1 EXCEPT !.has_best = TRUE, !.best_reward = node.acc,
                                      !.best_schedule = node.schedule]
                     ELSE st1)
            ELSE IF Prune(prune, st1, node, mrf)
            THEN SearchLoop(cands, mrf, maxn, prune, st1)
            ELSE LET task == cands[node.idx + 1]
                     pushed == PushSkip(PushOptions([heap |-> st1.pq, raised |-> FALSE],
                                                    node, task, 1, mrf),
                                        node, task, mrf)
                 IN SearchLoop(cands, mrf, maxn, prune,
                               [st1 EXCEPT !.pq = pushed.heap, !.raised = pushed.raised])

\* the first option of the task, whatever its reward
FirstBestOptionMutant(task) == task.options[1]

\* lines 233: max(task.options, key=expected_reward) returns the first maximum
FirstBestOption(task) ==
    LET K == {k \in 1..Len(task.options) :
                 \A j \in 1..Len(task.options) :
                     task.options[j].expected_reward <= task.options[k].expected_reward}
    IN task.options[CHOOSE k \in K : \A j \in K : k <= j]

RECURSIVE GreedyFallback(_)
\* lines 211-237: _greedy_fallback, as <<total_reward, schedule>>
GreedyFallback(cands) ==
    IF cands = <<>> THEN <<0, <<>>>>
    ELSE LET task == cands[Len(cands)]
             front == GreedyFallback(SubSeq(cands, 1, Len(cands) - 1))
         IN IF task.options = <<>>
            THEN <<front[1], Append(front[2], <<task.task_id, None>>)>>
            ELSE LET best_option == FirstBestOption(task)
                 IN <<front[1] + best_option.expected_reward,
                      Append(front[2], <<task.task_id, best_option.timing_window_minutes>>)>>

\* a SearchResult; raised marks a call that ended in TypeError instead
SearchResult(total, sched, nodes, completed, raised) ==
    [total_expected_reward |-> total, schedule |-> sched, nodes_explored |-> nodes,
     search_completed |-> completed, raised |-> raised]

\* lines 143-190: the queue, the counter and best_complete when the while
\* loop is left
SearchEnd(cands, maxn, prune) ==
    LET mrf == MaxRewardFrom(cands)
        init == [pq |-> <<HeapEntry(0 - (0 + mrf[0]), 0, 0, <<>>)>>,
                 nodes_explored |-> 0, has_best |-> FALSE, best_reward |-> 0,
                 best_schedule |-> <<>>, raised |-> FALSE]
    IN SearchLoop(cands, mrf, maxn, prune, init)

\* lines 106-209: AStarScheduler.search
Search(cands, maxn, prune) ==
    IF cands = <<>> THEN SearchResult(0, <<>>, 0, TRUE, FALSE)
    ELSE LET fin == SearchEnd(cands, maxn, prune)
             search_completed == ~(fin.pq # <<>> /\ fin.nodes_explored >= maxn)
             greedy == GreedyFallback(cands)
         IN IF fin.raised THEN SearchResult(0, <<>>, fin.nodes_explored, FALSE, TRUE)
            ELSE IF fin.has_best
                 THEN SearchResult(fin.best_reward, fin.best_schedule, fin.nodes_explored,
                                   search_completed, FALSE)
                 ELSE SearchResult(greedy[1], greedy[2], fin.nodes_explored,
                                   search_completed, FALSE)

\* lines 240-289: optimize_schedule
optimize_schedule(cands, maxn, prune) == Search(cands, maxn, prune)

(***************************************************************************)
(* Specification of the optimizer: Init draws a candidate list, a node     *)
(* budget and the pruning switch; RunSearch is one optimize_schedule call. *)
(***************************************************************************)
Rewards == MinReward..MaxReward

\* option lists: the k-th option carries the k-th timing window
OptionLists ==
    {[k \in 1..Len(rs) |-> TaskOption(TIMING_WINDOWS[k], rs[k])] : rs \in SeqsUpTo(Rewards, MaxOpts)}

CandidateLists ==
    {[i \in 1..Len(os) |-> TaskCandidate(i, os[i])] : os \in SeqsUpTo(OptionLists, MaxCands)}

\* a budget too small to finish any non-trivial search
SmallBudget == 2

NoResult == [status |-> "idle"]

SearchInit ==
    /\ candidates \in CandidateLists
    /\ max_nodes \in {DEFAULT_MAX_NODES, SmallBudget}
    /\ enable_pruning \in BOOLEAN
    /\ search_result = NoResult

RunSearch ==
    /\ search_result = NoResult
    /\ search_result' = [status |-> "done",
                         res |-> optimize_schedule(candidates, max_nodes, enable_pruning)]
    /\ UNCHANGED <<candidates, max_nodes, enable_pruning>>

(***************************************************************************)
(* Strings.  A string on which the program calls upper(), lower(),         *)
(* replace() or "in" is a sequence of one-character strings.               *)
(***************************************************************************)
LowerLetters == <<"a","b","c","d","e","f","g","h","i","j","k","l","m",
                  "n","o","p","q","r","s","t","u","v","w","x","y","z">>
UpperLetters == <<"A","B","C","D","E","F","G","H","I","J","K","L","M",
                  "N","O","P","Q","R","S","T","U","V","W","X","Y","Z">>

UpperMap == [c \in {LowerLetters[i] : i \in 1..26} |->
                UpperLetters[CHOOSE i \in 1..26 : LowerLetters[i] = c]]
LowerMap == [c \in {UpperLetters[i] : i \in 1..26} |->
                LowerLetters[CHOOSE i \in 1..26 : UpperLetters[i] = c]]

UpperChar(c) == IF c \in DOMAIN UpperMap THEN UpperMap[c] ELSE c
LowerChar(c) == IF c \in DOMAIN LowerMap THEN LowerMap[c] ELSE c

\* str.upper(), str.lower(), str.replace(' ', '_')
RECURSIVE Upper(_)
Upper(str) == IF str = <<>> THEN <<>> ELSE <<UpperChar(Head(str))>> \o Upper(Tail(str))
RECURSIVE Lower(_)
Lower(str) == IF str = <<>> THEN <<>> ELSE <<LowerChar(Head(str))>> \o Lower(Tail(str))
RECURSIVE ReplaceSpace(_)
ReplaceSpace(str) ==
    IF str = <<>> THEN <<>>
    ELSE <<IF Head(str) = " " THEN "_" ELSE Head(str)>> \o ReplaceSpace(Tail(str))

\* sub in str
Contains(str, sub) ==
    \E i \in 0..(Len(str) - Len(sub)) : SubSeq(str, i + 1, i + Len(sub)) = sub

\* Python's None where a string is expected (Optional[str]): a one-element
\* sequence whose element is no character, so it differs from every string
NoneStr == <<"<None>">>

\* truthiness of an Optional[str]: None and "" are false
Truthy(str) == str # NoneStr /\ str # <<>>

\* str(x) of an Optional[str]
Str(x) == IF x = NoneStr THEN <<"N","o","n","e">> ELSE x

S_STILL == <<"S","T","I","L","L">>
S_still == <<"s","t","i","l","l">>
S_WALKING == <<"W","A","L","K","I","N","G">>
S_home == <<"h","o","m","e">>
S_Home == <<"H","o","m","e">>
S_work == <<"w","o","r","k">>
S_gym == <<"g","y","m">>
S_my_gym == <<"m","y"," ","g","y","m">>
S_unknown == <<"u","n","k","n","o","w","n">>
S_morning == <<"m","o","r","n","i","n","g">>
S_afternoon == <<"a","f","t","e","r","n","o","o","n">>
S_evening == <<"e","v","e","n","i","n","g">>
S_night == <<"n","i","g","h","t">>
S_weekday == <<"w","e","e","k","d","a","y">>
S_weekend == <<"w","e","e","k","e","n","d">>
S_accept == <<"a","c","c","e","p","t">>
S_Accept == <<"A","c","c","e","p","t">>
S_reject == <<"r","e","j","e","c","t">>
S_accepted == <<"a","c","c","e","p","t","e","d">>
S_rejected == <<"r","e","j","e","c","t","e","d">>
S_maybe == <<"m","a","y","b","e">>

(***************************************************************************)
(* models.py: UserContextSchema.  timestamp is the triple weekday (0 is    *)
(* Monday), minute of the day and second of the minute.  additional_data   *)
(* is a record, empty for None and for {}.                                 *)
(***************************************************************************)
UserContext(act, wd, tod, loc) ==
    [activity_type |-> act, weekday |-> wd, tod |-> tod, second |-> 0,
     location_vector |-> loc,
     speed |-> 0, is_connected_to_car_bluetooth |-> FALSE, wifi_ssid |-> NoneStr,
     additional_data |-> <<>>]

\* context.timestamp.time(), in seconds of the day
TimeOfDay(context) == 60 * context.tod + context.second

\* context.timestamp.hour
Hour(context) == context.tod \div 60

\* the time-of-day classification shared by both context-key generators
TimePeriod(hour) ==
    IF 5 <= hour /\ hour < 12 THEN S_morning
    ELSE IF 12 <= hour /\ hour < 17 THEN S_afternoon
    ELSE IF 17 <= hour /\ hour < 21 THEN S_evening
    ELSE S_night

DayType(weekday) == IF weekday < 5 THEN S_weekday ELSE S_weekend

\* f"{activity}_{time_period}_{day_type}_{location}"
FormatKey(activity, time_period, day_type, location) ==
    activity \o <<"_">> \o time_period \o <<"_">> \o day_type \o <<"_">> \o location

\* inference.py: BayesianTimingOptimizer._generate_context_key
OptimizerContextKey(context) ==
    FormatKey(Upper(context.activity_type),
              TimePeriod(Hour(context)),
              DayType(context.weekday),
              IF Truthy(context.location_vector) THEN context.location_vector ELSE S_unknown)

\* learning_service.py: LearningService._generate_context_key
LearningContextKey(context) ==
    FormatKey(ReplaceSpace(Upper(context.activity_type)),
              TimePeriod(Hour(context)),
              DayType(context.weekday),
              ReplaceSpace(Lower(IF Truthy(context.location_vector)
                                 THEN context.location_vector ELSE S_unknown)))

(***************************************************************************)
(* models.py: BayesianTimingParametersDB.  The table has no uniqueness     *)
(* constraint on (task_type, context_key, timing_window); a query's        *)
(* .first() returns the earliest matching row.                             *)
(***************************************************************************)
BeliefRow(tt, key, w, a, b) ==
    [task_type |-> tt, context_key |-> key, timing_window |-> w,
     alpha |-> a, beta |-> b, total_triggers |-> 0]

\* index of the first row of tbl for the triple, 0 when there is none
FindRow(tbl, tt, key, w) ==
    LET M == {i \in 1..Len(tbl) : /\ tbl[i].task_type = tt
                                  /\ tbl[i].context_key = key
                                  /\ tbl[i].timing_window = w}
    IN IF M = {} THEN 0 ELSE CHOOSE i \in M : \A j \in M : i <= j

\* the prior written by BayesianTimingOptimizer._get_or_create_parameters
OPTIMIZER_PRIOR == <<4, 2>>
\* the prior written by LearningService._update_beta_distribution
LEARNING_PRIOR == <<1, 1>>

\* inference.py: BayesianTimingOptimizer._get_or_create_parameters
GetOrCreateParameters(tbl, tt, key, w) ==
    IF FindRow(tbl, tt, key, w) # 0 THEN tbl
    ELSE Append(tbl, BeliefRow(tt, key, w, OPTIMIZER_PRIOR[1], OPTIMIZER_PRIOR[2]))

\* alpha += 1 on accept, beta += 1 on reject, total_triggers += 1
BumpRowMutant(row, accepted) ==
    [row EXCEPT !.alpha = IF accepted THEN @ + 1 ELSE @,
                !.beta = IF accepted THEN @ + 1 ELSE @ + 1,
                !.total_triggers = @ + 1]

BumpRow(row, accepted) ==
    [row EXCEPT !.alpha = IF accepted THEN @ + 1 ELSE @,
                !.beta = IF accepted THEN @ ELSE @ + 1,
                !.total_triggers = @ + 1]

\* inference.py: BayesianTimingOptimizer.update_from_feedback (table effect)
UpdateFromFeedback(tbl, tt, key, w, accepted) ==
    Let(GetOrCreateParameters(tbl, tt, key, w), LAMBDA t1 :
        [t1 EXCEPT ![FindRow(t1, tt, key, w)] = BumpRow(@, accepted)])

\* learning_service.py: LearningService._update_beta_distribution (table effect)
UpdateBetaDistribution(tbl, tt, key, w, accepted) ==
    Let(IF FindRow(tbl, tt, key, w) # 0 THEN tbl
        ELSE Append(tbl, BeliefRow(tt, key, w, LEARNING_PRIOR[1], LEARNING_PRIOR[2])),
        LAMBDA t1 : [t1 EXCEPT ![FindRow(t1, tt, key, w)] = BumpRow(@, accepted)])

(***************************************************************************)
(* Confidence and uncertainty as the program reports them: rounded to      *)
(* three decimals, here as integer thousandths.                            *)
(***************************************************************************)
\* round(alpha / (alpha + beta), 3) in thousandths
Confidence3(a, b) == (2000 * a + (a + b)) \div (2 * (a + b))

RECURSIVE UncertaintySearch(_, _, _, _)
\* the least u in lo..hi with n < (2u + 1)^2 * den
UncertaintySearch(lo, hi, n, den) ==
    IF lo = hi THEN lo
    ELSE IF n < (2 * ((lo + hi) \div 2) + 1) * (2 * ((lo + hi) \div 2) + 1) * den
         THEN UncertaintySearch(lo, (lo + hi) \div 2, n, den)
         ELSE UncertaintySearch((lo + hi) \div 2 + 1, hi, n, den)

\* round(sqrt(alpha*beta / (total**2 * (total + 1))), 3) in thousandths
\* the u with (2u - 1)^2 * den <= 4000000 * alpha * beta < (2u + 1)^2 * den,
\* found by bisection
Uncertainty3(a, b) ==
    UncertaintySearch(0, 500, 4000000 * a * b, (a + b) * (a + b) * (a + b + 1))

\* the UCB key confidence + 0.5 * uncertainty, in two-thousandths
UcbScore(opt) == 2 * opt.confidence + opt.uncertainty

\* inference.py lines 53-72: the timing_options list built from the table
TimingOption(params) ==
    [window |-> params.timing_window,
     confidence |-> Confidence3(params.alpha, params.beta),
     uncertainty |-> Uncertainty3(params.alpha, params.beta),
     alpha |-> params.alpha, beta |-> params.beta,
     total_triggers |-> params.total_triggers,
     evidence_strength |-> params.alpha + params.beta - 2]

RECURSIVE TimingOptionsFrom(_, _, _, _)
TimingOptionsFrom(tbl, tt, key, k) ==
    IF k > Len(TIMING_WINDOWS) THEN <<>>
    ELSE <<Let(tbl[FindRow(tbl, tt, key, TIMING_WINDOWS[k])], TimingOption)>>
         \o TimingOptionsFrom(tbl, tt, key, k + 1)

TimingOptions(tbl, tt, key) == TimingOptionsFrom(tbl, tt, key, 1)

\* the first option with the largest confidence
BestOptionMutant(opts) ==
    LET K == {k \in 1..Len(opts) :
                 \A j \in 1..Len(opts) : opts[j].confidence <= opts[k].confidence}
    IN opts[CHOOSE k \in K : \A j \in K : k <= j]

\* max(timing_options, key=...) returns the first option with the largest key
BestOption(opts) ==
    LET score == [k \in 1..Len(opts) |-> UcbScore(opts[k])]
        K == {k \in 1..Len(opts) : \A j \in 1..Len(opts) : score[j] <= score[k]}
    IN opts[CHOOSE k \in K : \A j \in K : k <= j]

RECURSIVE CreateWindowsMutant(_, _, _, _)
\* a lookup that counts as an accepted trigger of every record it finds
CreateWindowsMutant(tbl, tt, key, k) ==
    IF k > Len(TIMING_WINDOWS) THEN tbl
    ELSE CreateWindowsMutant(
             IF FindRow(tbl, tt, key, TIMING_WINDOWS[k]) # 0
             THEN UpdateFromFeedback(tbl, tt, key, TIMING_WINDOWS[k], TRUE)
             ELSE GetOrCreateParameters(tbl, tt, key, TIMING_WINDOWS[k]),
             tt, key, k + 1)

RECURSIVE CreateWindows(_, _, _, _)
\* the _get_or_create_parameters calls of get_optimal_timing, window by window
CreateWindows(tbl, tt, key, k) ==
    IF k > Len(TIMING_WINDOWS) THEN tbl
    ELSE CreateWindows(GetOrCreateParameters(tbl, tt, key, TIMING_WINDOWS[k]), tt, key, k + 1)

\* a threshold of 0.7
ConfidenceThresholdMutant == 7 * 100

\* BayesianTimingOptimizer.CONFIDENCE_THRESHOLD and
\* InferenceEngine.CONFIDENCE_THRESHOLD (0.6), in thousandths
CONFIDENCE_THRESHOLD == 600

\* inference.py: BayesianTimingOptimizer.get_optimal_timing;
\* the table after the call and the returned dictionary
GetOptimalTiming(tbl, tt, context) ==
    Let(OptimizerContextKey(context), LAMBDA context_key :
    Let(CreateWindows(tbl, tt, context_key, 1), LAMBDA tbl1 :
    Let(TimingOptions(tbl1, tt, context_key), LAMBDA timing_options :
    Let(BestOption(timing_options), LAMBDA best_option :
        [table |-> tbl1,
         result |-> [timing_window |-> best_option.window,
                     confidence |-> best_option.confidence,
                     meets_threshold |-> best_option.confidence >= CONFIDENCE_THRESHOLD,
                     all_windows |-> timing_options,
                     context_key |-> context_key]]))))

(***************************************************************************)
(* models.py: TaskRuleDB and FeedbackLogDB.  current_probability_weight is *)
(* kept in hundredths (0.05 is 5, 1.0 is 100).                             *)
(***************************************************************************)
TaskRule(name, trigger, weight, event_id, active) ==
    [task_name |-> name, trigger_condition |-> trigger,
     current_probability_weight |-> weight, calendar_event_id |-> event_id,
     is_active |-> active]

FeedbackLog(rule_id, user_action, snapshot) ==
    [rule_id |-> rule_id, user_action |-> user_action, context_snapshot |-> snapshot]

Min(a, b) == IF a < b THEN a ELSE b
Max(a, b) == IF a > b THEN a ELSE b

\* the adjustment without the cap and the floor
AdjustWeightMutant(old_weight, accepted) ==
    IF accepted THEN old_weight + 5 ELSE old_weight - 10

\* min(1.0, old_weight + 0.05) and max(0.0, old_weight - 0.10)
AdjustWeight(old_weight, accepted) ==
    IF accepted THEN Min(100, old_weight + 5) ELSE Max(0, old_weight - 10)

\* the store as one value, for the operators that model a whole method
Store(r, b, f) == [rules |-> r, beliefs |-> b, feedback_log |-> f]

\* a context argument that was not supplied (context=None)
NoContext == [absent |-> TRUE]

(***************************************************************************)
(* inference.py: InferenceEngine.apply_feedback.  Returns the store after  *)
(* the call and the result dictionary.                                     *)
(***************************************************************************)
\* line 873: the window apply_feedback updates
APPLY_FEEDBACK_WINDOW == 30

ApplyFeedback(st, rule_id, outcome, context) ==
    IF rule_id \notin DOMAIN st.rules
    THEN [store |-> st, result |-> [success |-> FALSE, message |-> "Rule not found"]]
    ELSE IF outcome \notin {"positive", "negative"}
    THEN [store |-> st, result |-> [success |-> FALSE, message |-> "Invalid outcome"]]
    ELSE LET rule == st.rules[rule_id]
             accepted == outcome = "positive"
             old_weight == rule.current_probability_weight
             new_weight == AdjustWeight(old_weight, accepted)
             log == Append(st.feedback_log,
                           FeedbackLog(rule_id, IF accepted THEN "accepted" ELSE "rejected",
                                       context))
             tbl == IF context = NoContext THEN st.beliefs
                    ELSE UpdateFromFeedback(st.beliefs, rule.task_name,
                                            OptimizerContextKey(context),
                                            APPLY_FEEDBACK_WINDOW, accepted)
         IN [store |-> Store([st.rules EXCEPT ![rule_id].current_probability_weight = new_weight],
                             tbl, log),
             result |-> [success |-> TRUE, message |-> "ok", rule_id |-> rule_id,
                         old_weight |-> old_weight, new_weight |-> new_weight,
                         bayesian_update |-> context # NoContext]]

(***************************************************************************)
(* main.py: provide_feedback, the POST /feedback handler.  FeedbackSchema  *)
(* admits only the outcomes "positive" and "negative".  The handler logs   *)
(* the feedback and commits before it calls apply_feedback, and answers    *)
(* 404 when apply_feedback reports no success.                             *)
(***************************************************************************)
ProvideFeedback(st, rule_id, outcome, snapshot) ==
    LET logged == [st EXCEPT !.feedback_log = Append(@, FeedbackLog(rule_id, outcome, snapshot))]
        r == ApplyFeedback(logged, rule_id, outcome, NoContext)
    IN [store |-> r.store,
        result |-> IF r.result.success THEN r.result
                   ELSE [success |-> FALSE, message |-> r.result.message, status_code |-> 404]]

(***************************************************************************)
(* learning_service.py: LearningService._update_rule_weight and            *)
(* LearningService.record_feedback.                                        *)
(***************************************************************************)
UpdateRuleWeight(rls, rule_id, accepted) ==
    IF rule_id \notin DOMAIN rls
    THEN [rules |-> rls, update |-> [old_weight |-> 0, new_weight |-> 0, found |-> FALSE]]
    ELSE LET old_weight == rls[rule_id].current_probability_weight
             new_weight == AdjustWeight(old_weight, accepted)
         IN [rules |-> [rls EXCEPT ![rule_id].current_probability_weight = new_weight],
             update |-> [old_weight |-> old_weight, new_weight |-> new_weight, found |-> TRUE]]

ACCEPT_WORDS == {S_accept, S_accepted}
FEEDBACK_WORDS == {S_accept, S_reject, S_accepted, S_rejected}

\* lines 58-59: the validation of the feedback string
ValidFeedbackMutant(feedback) == Lower(feedback) # <<>>

ValidFeedback(feedback) == Lower(feedback) \in FEEDBACK_WORDS

RecordFeedback(st, task_id, task_type, context, timing_window, feedback) ==
    IF ~ValidFeedback(feedback)
    THEN [store |-> st, result |-> [success |-> FALSE, message |-> "Invalid feedback"]]
    ELSE Let(Lower(feedback) \in ACCEPT_WORDS, LAMBDA accepted :
         Let(LearningContextKey(context), LAMBDA context_key :
         Let(UpdateBetaDistribution(st.beliefs, task_type, context_key,
                                    timing_window, accepted), LAMBDA tbl :
         LET row == tbl[FindRow(tbl, task_type, context_key, timing_window)]
             log == Append(st.feedback_log,
                           FeedbackLog(task_id, IF accepted THEN "accepted" ELSE "rejected",
                                       [context_key |-> context_key,
                                        timing_window |-> timing_window]))
             ru == UpdateRuleWeight(st.rules, task_id, accepted)
         IN [store |-> Store(ru.rules, tbl, log),
             result |-> [success |-> TRUE, message |-> "ok",
                         alpha |-> row.alpha, beta |-> row.beta,
                         confidence |-> Confidence3(row.alpha, row.beta),
                         old_weight |-> ru.update.old_weight,
                         new_weight |-> ru.update.new_weight,
                         total_feedback_count |-> row.alpha + row.beta - 2]])))

(***************************************************************************)
(* Specification of the learning store: the timing optimizer, the two      *)
(* feedback services and the /feedback handler act on one store.           *)
(*                                                                         *)
(* last records the last request.  Two of its fields are history: priors   *)
(* is the set of (alpha, beta) pairs with which belief rows have been      *)
(* created so far, and streak counts the consecutive updates of one kind   *)
(* on one triple together with the parameters the run started from.        *)
(***************************************************************************)
\* the contexts requests carry: same situation, different letter case
HomeContext == UserContext(S_STILL, 0, 8 * 60, S_home)
LearnContexts == {HomeContext, UserContext(S_still, 0, 8 * 60, S_Home)}

\* task_type strings (no string operation is applied to them)
TaskTypes == {"Gym"}

\* rule ids requests name: one that exists and one that does not
UnknownRuleId == 9
RequestRuleIds == {1, UnknownRuleId}

Outcomes == {"positive", "negative", "bogus"}
FeedbackStrings == {S_Accept, S_rejected, S_maybe}
FeedbackWindows == {30, 10}

NoStreak == [kind |-> "none", task_type |-> "", context_key |-> <<>>, timing_window |-> 0,
             k |-> 0, a0 |-> 0, b0 |-> 0]

NoCall ==
    [n |-> 0, op |-> "none", rule_id |-> 0, task_type |-> "", context |-> NoContext,
     context_key |-> <<>>, timing_window |-> 0, action |-> "", result |-> [success |-> FALSE],
     priors |-> {}, streak |-> NoStreak]

LearnRules ==
    (1 :> TaskRule("Gym", <<>>, 95, None, TRUE)) @@ (2 :> TaskRule("Email", <<>>, 5, None, TRUE))

\* the parameters a row created by this step started from
RowPrior(row, accepted) ==
    IF row.total_triggers = 0 THEN <<row.alpha, row.beta>>
    ELSE IF accepted THEN <<row.alpha - 1, row.beta>> ELSE <<row.alpha, row.beta - 1>>

\* priors of the rows that tbl2 has and tbl1 has not
NewPriors(tbl1, tbl2, accepted) ==
    {RowPrior(tbl2[i], accepted) : i \in (Len(tbl1) + 1)..Len(tbl2)}

\* the streak after an update of kind accepted on the triple, given the table
\* before the increment (tblPre, the row exists or is created with prior)
NextStreak(streak, tblPre, prior, tt, key, w, accepted) ==
    LET kind == IF accepted THEN "accept" ELSE "reject"
        i == FindRow(tblPre, tt, key, w)
    IN IF /\ streak.kind = kind /\ streak.task_type = tt
          /\ streak.context_key = key /\ streak.timing_window = w
       THEN [streak EXCEPT !.k = @ + 1]
       ELSE [kind |-> kind, task_type |-> tt, context_key |-> key, timing_window |-> w,
             k |-> 1,
             a0 |-> IF i = 0 THEN prior[1] ELSE tblPre[i].alpha,
             b0 |-> IF i = 0 THEN prior[2] ELSE tblPre[i].beta]

SetStore(st) ==
    /\ rules' = st.rules
    /\ beliefs' = st.beliefs
    /\ feedback_log' = st.feedback_log

CurrentStore == Store(rules, beliefs, feedback_log)

LearnInit ==
    /\ rules = LearnRules
    /\ beliefs = <<>>
    /\ feedback_log = <<>>
    /\ last = NoCall
    /\ sessions = <<>>
    /\ events = <<>>
    /\ now = 0
    /\ candidates = <<>>
    /\ max_nodes = DEFAULT_MAX_NODES
    /\ enable_pruning = TRUE
    /\ search_result = NoResult

\* a get_optimal_timing request
DoGetOptimalTiming ==
    /\ last.n < MaxCalls
    /\ \E tt \in TaskTypes, context \in LearnContexts :
        \E r \in {GetOptimalTiming(beliefs, tt, context)} :
           /\ beliefs' = r.table
           /\ last' = [NoCall EXCEPT !.n = last.n + 1, !.op = "get_optimal_timing",
                           !.task_type = tt, !.context = context,
                           !.context_key = r.result.context_key,
                           !.result = [success |-> TRUE,
                                       timing_window |-> r.result.timing_window,
                                       confidence |-> r.result.confidence],
                           !.priors = last.priors \cup NewPriors(beliefs, r.table, TRUE),
                           !.streak = last.streak]
           /\ UNCHANGED <<rules, feedback_log, events, now, searchVars, sessions>>

\* a direct update_from_feedback call
DoUpdateFromFeedback ==
    /\ last.n < MaxCalls
    /\ \E tt \in TaskTypes, context \in {HomeContext}, w \in FeedbackWindows,
          accepted \in BOOLEAN :
        \E key \in {OptimizerContextKey(context)} :
        \E tbl \in {UpdateFromFeedback(beliefs, tt, key, w, accepted)} :
           /\ beliefs' = tbl
           /\ last' = [NoCall EXCEPT !.n = last.n + 1, !.op = "update_from_feedback",
                           !.task_type = tt, !.context_key = key, !.timing_window = w,
                           !.action = IF accepted THEN "accepted" ELSE "rejected",
                           !.result = [success |-> TRUE],
                           !.priors = last.priors \cup NewPriors(beliefs, tbl, accepted),
                           !.streak = NextStreak(last.streak, beliefs, OPTIMIZER_PRIOR,
                                                 tt, key, w, accepted)]
           /\ UNCHANGED <<rules, feedback_log, events, now, searchVars, sessions>>

\* an apply_feedback call, with or without a context
DoApplyFeedback ==
    /\ last.n < MaxCalls
    /\ \E rule_id \in RequestRuleIds, outcome \in Outcomes,
       context \in {HomeContext, NoContext} :
        \E r \in {ApplyFeedback(CurrentStore, rule_id, outcome, context)} :
        \E key \in {IF context = NoContext THEN <<>> ELSE OptimizerContextKey(context)} :
        LET accepted == outcome = "positive"
            updates == r.result.success /\ context # NoContext
            tt == IF rule_id \in DOMAIN rules THEN rules[rule_id].task_name ELSE ""
        IN /\ TRUE
           /\ SetStore(r.store)
           /\ last' = [NoCall EXCEPT !.n = last.n + 1, !.op = "apply_feedback",
                           !.rule_id = rule_id, !.task_type = tt, !.context = context,
                           !.context_key = key, !.timing_window = APPLY_FEEDBACK_WINDOW,
                           !.action = outcome,
                           !.result = [success |-> r.result.success,
                                       message |-> r.result.message],
                           !.priors = last.priors
                                      \cup NewPriors(beliefs, r.store.beliefs, accepted),
                           !.streak = IF updates
                                      THEN NextStreak(last.streak, beliefs, OPTIMIZER_PRIOR, tt,
                                                      key, APPLY_FEEDBACK_WINDOW, accepted)
                                      ELSE last.streak]
           /\ UNCHANGED <<events, now, searchVars, sessions>>

\* a POST /feedback request
DoProvideFeedback ==
    /\ last.n < MaxCalls
    /\ \E rule_id \in RequestRuleIds, outcome \in {"positive", "negative"} :
        \E r \in {ProvideFeedback(CurrentStore, rule_id, outcome, NoContext)} :
           /\ SetStore(r.store)
           /\ last' = [NoCall EXCEPT !.n = last.n + 1, !.op = "provide_feedback",
                           !.rule_id = rule_id,
                           !.task_type = IF rule_id \in DOMAIN rules
                                         THEN rules[rule_id].task_name ELSE "",
                           !.action = outcome,
                           !.result = [success |-> r.result.success,
                                       message |-> r.result.message],
                           !.priors = last.priors,
                           !.streak = last.streak]
           /\ UNCHANGED <<events, now, searchVars, sessions>>

\* a LearningService.record_feedback call
DoRecordFeedback ==
    /\ last.n < MaxCalls
    /\ \E task_id \in RequestRuleIds, tt \in TaskTypes, context \in LearnContexts,
       w \in FeedbackWindows, feedback \in FeedbackStrings :
        \E r \in {RecordFeedback(CurrentStore, task_id, tt, context, w, feedback)} :
        \E key \in {LearningContextKey(context)} :
        \E accepted \in {Lower(feedback) \in ACCEPT_WORDS} :
           /\ SetStore(r.store)
           /\ last' = [NoCall EXCEPT !.n = last.n + 1, !.op = "record_feedback",
                           !.rule_id = task_id, !.task_type = tt, !.context = context,
                           !.context_key = key, !.timing_window = w,
                           !.action = feedback,
                           !.result = [success |-> r.result.success,
                                       message |-> r.result.message],
                           !.priors = last.priors
                                      \cup NewPriors(beliefs, r.store.beliefs, accepted),
                           !.streak = IF r.result.success
                                      THEN NextStreak(last.streak, beliefs, LEARNING_PRIOR, tt,
                                                      key, w, accepted)
                                      ELSE last.streak]
           /\ UNCHANGED <<events, now, searchVars, sessions>>

LearnNext ==
    \/ DoGetOptimalTiming
    \/ DoUpdateFromFeedback
    \/ DoApplyFeedback
    \/ DoProvideFeedback
    \/ DoRecordFeedback

SpecLearn == LearnInit /\ [][LearnNext]_vars

\* the optimizer alone; the store plays no part
SearchSpecInit ==
    /\ SearchInit
    /\ rules = <<>>
    /\ beliefs = <<>>
    /\ feedback_log = <<>>
    /\ events = <<>>
    /\ now = 0
    /\ last = NoCall
    /\ sessions = <<>>

SearchNext == RunSearch /\ UNCHANGED <<rules, beliefs, feedback_log, events, now, last, sessions>>

SpecSearch == SearchSpecInit /\ [][SearchNext]_vars

(***************************************************************************)
(* The optimizer under a node budget (SpecBudget): candidates as decide    *)
(* builds them, with at most one option per timing window, and the budgets *)
(* 10000, a small one and 0.                                               *)
(***************************************************************************)
BudgetCands == 2     \* candidates per search input

\* rewards of the options, in reward units: negative, zero and positive
BudgetRewards == {0 - 1, 0, 2}

BudgetOptionLists ==
    {[k \in 1..Len(rs) |-> TaskOption(TIMING_WINDOWS[k], rs[k])] :
        rs \in SeqsUpTo(BudgetRewards, Len(TIMING_WINDOWS))}

BudgetLists ==
    {[i \in 1..Len(os) |-> TaskCandidate(i, os[i])] :
        os \in SeqsUpTo(BudgetOptionLists, BudgetCands)}

BudgetInit ==
    /\ candidates \in BudgetLists
    /\ max_nodes \in {DEFAULT_MAX_NODES, SmallBudget, 0}
    /\ enable_pruning \in BOOLEAN
    /\ search_result = NoResult
    /\ rules = <<>>
    /\ beliefs = <<>>
    /\ feedback_log = <<>>
    /\ events = <<>>
    /\ now = 0
    /\ last = NoCall
    /\ sessions = <<>>

SpecBudget == BudgetInit /\ [][SearchNext]_vars

(***************************************************************************)
(* models.py: CalendarEventDB.  Datetimes are half minutes since an        *)
(* arbitrary origin, None when unset.  events is the table in primary-key  *)
(* order; event_id is the calendar's identifier that a rule's              *)
(* calendar_event_id refers to.                                            *)
(***************************************************************************)
CalendarEvent(event_id, title, priority, start_time, optimal_reminder_time, last_reminded_at, reminder_count, suggested_contexts) ==
    [event_id |-> event_id, title |-> title, priority |-> priority,
     start_time |-> start_time,
     optimal_reminder_time |-> optimal_reminder_time,
     last_reminded_at |-> last_reminded_at, reminder_count |-> reminder_count,
     suggested_contexts |-> suggested_contexts, completed |-> 0, dismissed |-> 0]

\* half minutes in m minutes
Minutes(m) == 2 * m

\* int(x / d) for d > 0: truncation toward zero
TruncDiv(x, d) == IF x >= 0 THEN x \div d ELSE 0 - ((0 - x) \div d)

\* int(time_until.total_seconds() / 60)
MinutesUntil(event, t) == TruncDiv(event.start_time - t, 2)

Abs(x) == IF x < 0 THEN 0 - x ELSE x

\* the lead time with the buffer of a low priority for every priority
LeadTimeMinutesMutant(priority, prep_travel) == Max(prep_travel + 15, 10)

\* calendar_parser.py: ParsedTask.get_optimal_reminder_time, the lead time in
\* minutes for a priority and the preparation plus travel minutes
LeadTimeMinutes(priority, prep_travel) ==
    Max(prep_travel + (IF priority = "high" THEN 60
                       ELSE IF priority = "medium" THEN 30 ELSE 15),
        10)

OptimalReminderTime(start_time, priority, prep_travel) ==
    start_time - Minutes(LeadTimeMinutes(priority, prep_travel))

\* the filter without its completed test
UpcomingMutant(event, t) ==
    /\ event.start_time # None
    /\ event.start_time >= t
    /\ event.start_time <= t + Minutes(24 * 60)
    /\ event.dismissed = 0

\* _get_calendar_reminders: the filter of the upcoming-events query
Upcoming(event, t) ==
    /\ event.start_time # None
    /\ event.start_time >= t
    /\ event.start_time <= t + Minutes(24 * 60)
    /\ event.completed = 0
    /\ event.dismissed = 0

(***************************************************************************)
(* inference.py: InferenceEngine._should_remind_about_event.  Returns the  *)
(* event row after the call and the tuple (should_remind, confidence,      *)
(* reasoning); confidence is in hundredths, reasoning is the fixed text of *)
(* a refusal or the priority tag of a reminder.                            *)
(***************************************************************************)
Reminder(should_remind, confidence, reasoning) ==
    [should_remind |-> should_remind, confidence |-> confidence, reasoning |-> reasoning]

\* the reminder time stamped without counting the reminder
MarkRemindedMutant(event, t) == [event EXCEPT !.last_reminded_at = t]

\* event.last_reminded_at = now; event.reminder_count += 1; commit
MarkReminded(event, t) ==
    [event EXCEPT !.last_reminded_at = t, !.reminder_count = @ + 1]

\* min_interval_hours of a high-priority event, in half minutes
MinIntervalMutant(minutes_until) ==
    IF minutes_until < 30 THEN Minutes(15)
    ELSE IF minutes_until <= 120 THEN Minutes(30)
    ELSE Minutes(120)

MinInterval(minutes_until) ==
    IF minutes_until <= 30 THEN Minutes(15)
    ELSE IF minutes_until <= 120 THEN Minutes(30)
    ELSE Minutes(120)

\* event.last_reminded_at is set and less than interval half minutes ago
RemindedWithin(event, t, interval) ==
    /\ event.last_reminded_at # None
    /\ t - event.last_reminded_at < interval

\* the location test of the free-time context left out
IsFreeMutant(context) == Upper(context.activity_type) = S_STILL

\* context.activity_type.upper() == 'STILL' and location_vector in ['home', 'work']
IsFree(context) ==
    /\ Upper(context.activity_type) = S_STILL
    /\ context.location_vector \in {S_home, S_work}

\* some suggested context, lower-cased, occurs in str(location_vector).lower()
ContextMatches(event, context) ==
    \E i \in 1..Len(event.suggested_contexts) :
        Contains(Lower(Str(context.location_vector)), Lower(event.suggested_contexts[i]))

\* line 527: a low-priority event that was reminded before
AlreadyRemindedMutant(event) == event.reminder_count > 1

AlreadyReminded(event) == event.reminder_count > 0

NotTimeYet(event) ==
    [event |-> event, result |-> Reminder(FALSE, 0, "Not time to remind yet")]

ShouldRemindAboutEvent(event, context, t) ==
    LET minutes_until == MinutesUntil(event, t)
        optimal_reminder_time == event.optimal_reminder_time
    IN IF event.priority = "high"
       THEN IF optimal_reminder_time # None /\ t >= optimal_reminder_time
            THEN IF RemindedWithin(event, t, MinInterval(minutes_until))
                 THEN [event |-> event,
                       result |-> Reminder(FALSE, 0, "Reminded too recently")]
                 ELSE [event |-> MarkReminded(event, t),
                       result |-> Reminder(TRUE, 95, "HIGH PRIORITY")]
            ELSE NotTimeYet(event)
       ELSE IF event.priority = "medium"
       THEN IF optimal_reminder_time # None /\ t >= optimal_reminder_time
            THEN IF IsFree(context) \/ minutes_until <= 60
                 THEN IF RemindedWithin(event, t, Minutes(180))
                      THEN [event |-> event,
                            result |-> Reminder(FALSE, 0, "Reminded too recently")]
                      ELSE [event |-> MarkReminded(event, t),
                            result |-> Reminder(TRUE,
                                                IF IsFree(context) THEN 75 ELSE 65,
                                                IF IsFree(context) THEN "Good time to prepare"
                                                ELSE "Event approaching soon")]
                 ELSE NotTimeYet(event)
            ELSE NotTimeYet(event)
       ELSE IF AlreadyReminded(event)
            THEN [event |-> event,
                  result |-> Reminder(FALSE, 0, "Already reminded once (low priority)")]
            ELSE IF /\ optimal_reminder_time # None
                    /\ Abs(optimal_reminder_time - t) > Minutes(15)
            THEN [event |-> event,
                  result |-> Reminder(FALSE, 0, "Not at optimal reminder time yet")]
            ELSE IF minutes_until <= 30 \/ ContextMatches(event, context)
            THEN [event |-> MarkReminded(event, t),
                  result |-> Reminder(TRUE, 60, "Reminder")]
            ELSE NotTimeYet(event)

(***************************************************************************)
(* The reminder policy on one event (SpecRemind).  The event was synced    *)
(* from the calendar with its reminder time set by the parser, and may     *)
(* have been reminded before; the clock advances between evaluations.      *)
(***************************************************************************)
MaxSteps == 2        \* evaluations and clock steps per behaviour

\* the clock at the start, late enough for a reminder three hours before
RemindStart == Minutes(200)

Priorities == {"high", "medium", "low"}

\* preparation plus travel minutes of the synced event; with 120 the
\* reminder time of every priority is more than two hours before the start
PrepTravel == {0, 30, 120}

\* start_time - now at the start, in half minutes: around the 30, 60 and
\* 120 minute thresholds, and further out
StartOffsets == {19, 40, 60, 61, 90, 120, 121, 240, 241, 242, 300}

\* now - last_reminded_at at the start, in half minutes: around the 15, 30,
\* 120 and 180 minute intervals
RemindedAgo == {20, 29, 30, 32, 59, 60, 239, 240, 359, 360}

SuggestedContexts == {<<>>, <<S_Home>>}

RemindContexts ==
    {UserContext(S_still, 0, 8 * 60, S_home),
     UserContext(S_WALKING, 0, 8 * 60, S_my_gym),
     UserContext(S_STILL, 0, 8 * 60, NoneStr)}

\* the clock steps: half a minute, a quarter of an hour
ClockSteps == {1, 30}

RemindEvents ==
    {CalendarEvent(1, "Meeting", p, RemindStart + off,
                   OptimalReminderTime(RemindStart + off, p, pt),
                   IF ago = None THEN None ELSE RemindStart - ago,
                   IF ago = None THEN 0 ELSE 1, sc) :
        p \in Priorities, off \in StartOffsets, pt \in PrepTravel,
        ago \in RemindedAgo \cup {None}, sc \in SuggestedContexts}

RemindInit ==
    /\ events \in {<<e>> : e \in RemindEvents}
    /\ now = RemindStart
    /\ rules = <<>>
    /\ beliefs = <<>>
    /\ feedback_log = <<>>
    /\ last = [n |-> 0, op |-> "none"]
    /\ sessions = <<>>
    /\ candidates = <<>>
    /\ max_nodes = DEFAULT_MAX_NODES
    /\ enable_pruning = TRUE
    /\ search_result = NoResult

\* the policy is evaluated for the upcoming event, as _get_calendar_reminders does
DoShouldRemind ==
    /\ last.n < MaxSteps
    /\ Upcoming(events[1], now)
    /\ \E context \in RemindContexts :
        \E r \in {ShouldRemindAboutEvent(events[1], context, now)} :
           /\ events' = <<r.event>>
           /\ last' = [n |-> last.n + 1, op |-> "should_remind", event |-> events[1],
                       context |-> context, now |-> now, result |-> r.result]
    /\ UNCHANGED <<rules, beliefs, feedback_log, now, searchVars, sessions>>

\* time passes
Tick ==
    /\ last.n < MaxSteps
    /\ \E dt \in ClockSteps : now' = now + dt
    /\ last' = [n |-> last.n + 1, op |-> "tick"]
    /\ UNCHANGED <<rules, beliefs, feedback_log, events, searchVars, sessions>>

RemindNext == DoShouldRemind \/ Tick

SpecRemind == RemindInit /\ [][RemindNext]_vars

(***************************************************************************)
(* inference.py: InferenceEngine._evaluate_rule.  A trigger condition is a *)
(* record holding the keys the rule sets; a time range is the pair of its  *)
(* parsed ends in minutes of the day, or not parseable.                    *)
(***************************************************************************)
S_disconnected == <<"d","i","s","c","o","n","n","e","c","t","e","d">>
S_not_connected == <<"n","o","t","_","c","o","n","n","e","c","t","e","d">>

TimeRange(start, end) == [parses |-> TRUE, start |-> start, end |-> end]

\* a time_range value on which split or strptime raises
BadTimeRange == [parses |-> FALSE]

\* the comparison without the branch for ranges that cross midnight
IsTimeInRangeMutant(time_range, current) ==
    /\ time_range.parses
    /\ 60 * time_range.start <= current
    /\ current <= 60 * time_range.end

\* _is_time_in_range; current is context.timestamp.time() in seconds
IsTimeInRange(time_range, current) ==
    IF ~time_range.parses THEN FALSE
    ELSE IF time_range.start <= time_range.end
         THEN 60 * time_range.start <= current /\ current <= 60 * time_range.end
         ELSE current >= 60 * time_range.start \/ current <= 60 * time_range.end

\* the keys _evaluate_rule checks one after the other when the trigger has them
TRIGGER_KEYS == {"activity", "time_range", "location_vector", "car_bluetooth",
                 "wifi_ssid", "min_speed"}

\* the check of one trigger key succeeds
CheckPasses(key, trigger, context) ==
    CASE key = "activity" ->
            Upper(context.activity_type) = Upper(trigger.activity)
      [] key = "time_range" ->
            IsTimeInRange(trigger.time_range, TimeOfDay(context))
      [] key = "location_vector" ->
            /\ Truthy(context.location_vector)
            /\ Lower(context.location_vector) = Lower(trigger.location_vector)
      [] key = "car_bluetooth" ->
            trigger.car_bluetooth = context.is_connected_to_car_bluetooth
      [] key = "wifi_ssid" ->
            IF trigger.wifi_ssid \in {S_disconnected, S_not_connected, NoneStr}
            THEN ~Truthy(context.wifi_ssid)
            ELSE /\ Truthy(context.wifi_ssid)
                 /\ Lower(context.wifi_ssid) = Lower(trigger.wifi_ssid)
      [] key = "min_speed" ->
            context.speed >= trigger.min_speed

EvaluateRule(rule, context) ==
    LET trigger == rule.trigger_condition
        present == TRIGGER_KEYS \cap DOMAIN trigger
        custom == IF "custom" \in DOMAIN trigger
                  THEN DOMAIN trigger.custom \cap DOMAIN context.additional_data
                  ELSE {}
        passed == {key \in present : CheckPasses(key, trigger, context)}
        custom_passed == {key \in custom :
                             context.additional_data[key] = trigger.custom[key]}
        total_checks == Cardinality(present) + Cardinality(custom)
        successful_checks == Cardinality(passed) + Cardinality(custom_passed)
    IN [matches |-> total_checks > 0 /\ 5 * successful_checks >= 4 * total_checks,
        successful_checks |-> successful_checks,
        total_checks |-> total_checks,
        matched_conditions |-> passed \cup custom_passed]

(***************************************************************************)
(* models.py: InferredTask.  confidence is in hundredths; a timing         *)
(* confidence and an expected reward are in reward units, RewardScale of   *)
(* them to 1.0, which holds every product the engine forms of a weight in  *)
(* hundredths, a match score with up to six checks, a window confidence in *)
(* thousandths and a factor 1 - window/120.                                *)
(*                                                                         *)
(* The schema declares rule_id, task_name, task_description, confidence,   *)
(* reasoning, matched_conditions, optimal_timing_window and                *)
(* timing_confidence.  infer_tasks also passes timing_options to the       *)
(* constructor; the schema has no such field and the keyword is dropped.   *)
(* The two text fields are left out.                                       *)
(***************************************************************************)
RewardScale == 100 * 60 * 1000

InferredTask(rule_id, task_name, confidence, matched_conditions, optimal_timing_window, timing_confidence, timing_options) ==
    [rule_id |-> rule_id, task_name |-> task_name, confidence |-> confidence,
     matched_conditions |-> matched_conditions,
     optimal_timing_window |-> optimal_timing_window,
     timing_confidence |-> timing_confidence]

\* the object has the attribute
HasAttr(task, name) == name \in DOMAIN task

\* rule.current_probability_weight * match_result["match_score"], in 1/6000
BaseConfidence(rule, match_result) ==
    (rule.current_probability_weight * 60 * match_result.successful_checks)
        \div match_result.total_checks

RECURSIVE RuleTimingOptions(_, _, _)
\* lines 321-327: the options of a rule task from all_windows
RuleTimingOptions(base_confidence, all_windows, k) ==
    IF k > Len(all_windows) THEN <<>>
    ELSE <<[window |-> all_windows[k].window,
            confidence |-> all_windows[k].confidence * 6000,
            expected_reward |-> base_confidence * all_windows[k].confidence]>>
         \o RuleTimingOptions(base_confidence, all_windows, k + 1)

RECURSIVE RuleTasksFrom(_, _, _, _)
\* lines 289-340: the loop over the active rules from rule i on; the belief
\* table after it and the tasks it appended
RuleTasksFrom(rls, tbl, context, i) ==
    IF i > Len(rls) THEN [table |-> tbl, tasks |-> <<>>]
    ELSE IF ~rls[i].is_active \/ rls[i].calendar_event_id # None
    THEN RuleTasksFrom(rls, tbl, context, i + 1)
    ELSE Let(EvaluateRule(rls[i], context), LAMBDA match_result :
         IF ~match_result.matches
         THEN RuleTasksFrom(rls, tbl, context, i + 1)
         ELSE Let(BaseConfidence(rls[i], match_result), LAMBDA base_confidence :
         IF base_confidence < 3600
         THEN RuleTasksFrom(rls, tbl, context, i + 1)
         ELSE Let(GetOptimalTiming(tbl, rls[i].task_name, context), LAMBDA timing :
              Let(RuleTasksFrom(rls, timing.table, context, i + 1), LAMBDA rest :
              IF base_confidence >= 4200 \/ timing.result.meets_threshold
              THEN [table |-> rest.table,
                    tasks |-> <<InferredTask(i, rls[i].task_name,
                                    (base_confidence + 30) \div 60,
                                    match_result.matched_conditions,
                                    timing.result.timing_window,
                                    timing.result.confidence * 6000,
                                    RuleTimingOptions(base_confidence,
                                                      timing.result.all_windows, 1))>>
                              \o rest.tasks]
              ELSE rest))))

(***************************************************************************)
(* inference.py: InferenceEngine._get_calendar_reminders                   *)
(***************************************************************************)
\* the windows a calendar reminder may be given
CALENDAR_WINDOWS == <<60, 30, 15, 10>>

RECURSIVE CalendarOptionsFrom(_, _, _)
\* lines 393-400: confidence * (1.0 - window / 120) for the windows that fit
CalendarOptionsFrom(confidence, minutes_until, k) ==
    IF k > Len(CALENDAR_WINDOWS) THEN <<>>
    ELSE (IF minutes_until >= CALENDAR_WINDOWS[k]
          THEN <<[window |-> CALENDAR_WINDOWS[k],
                  confidence |-> confidence * 500 * (120 - CALENDAR_WINDOWS[k]),
                  expected_reward |-> confidence * 500 * (120 - CALENDAR_WINDOWS[k])]>>
          ELSE <<>>)
         \o CalendarOptionsFrom(confidence, minutes_until, k + 1)

CalendarOptions(confidence, minutes_until) ==
    Let(CalendarOptionsFrom(confidence, minutes_until, 1), LAMBDA timing_options :
        IF timing_options = <<>>
        THEN <<[window |-> minutes_until, confidence |-> confidence * 60000,
                expected_reward |-> confidence * 60000]>>
        ELSE timing_options)

\* the first rule whose calendar_event_id is the event's, 0 if there is none
RuleOfEvent(rls, event_id) ==
    LET R == {i \in 1..Len(rls) : rls[i].calendar_event_id = event_id}
    IN IF R = {} THEN 0 ELSE CHOOSE i \in R : \A j \in R : i <= j

RECURSIVE CalendarRemindersFrom(_, _, _, _, _)
\* the loop over the upcoming events from row i on; the events table after
\* it and the tasks it appended
CalendarRemindersFrom(evs, rls, context, t, i) ==
    IF i > Len(evs) THEN [events |-> evs, tasks |-> <<>>]
    ELSE IF ~Upcoming(evs[i], t)
    THEN CalendarRemindersFrom(evs, rls, context, t, i + 1)
    ELSE Let(ShouldRemindAboutEvent(evs[i], context, t), LAMBDA r :
         Let(CalendarRemindersFrom([evs EXCEPT ![i] = r.event], rls, context, t, i + 1),
             LAMBDA rest :
         Let(RuleOfEvent(rls, evs[i].event_id), LAMBDA rule_id :
         IF r.result.should_remind /\ rule_id # 0
         THEN [events |-> rest.events,
               tasks |-> <<InferredTask(rule_id, evs[i].title, r.result.confidence,
                               {"calendar_event"}, MinutesUntil(evs[i], t),
                               r.result.confidence * 60000,
                               CalendarOptions(r.result.confidence,
                                               MinutesUntil(evs[i], t)))>>
                         \o rest.tasks]
         ELSE rest)))

CalendarReminders(evs, rls, context, t) == CalendarRemindersFrom(evs, rls, context, t, 1)

(***************************************************************************)
(* inference.py: InferenceEngine._apply_search_optimization and the sort   *)
(* both branches of infer_tasks end with.                                  *)
(***************************************************************************)
\* x.confidence * (x.timing_confidence or 1.0)
SortKey(task) ==
    task.confidence * (IF task.timing_confidence = 0 THEN RewardScale
                       ELSE task.timing_confidence)

RECURSIVE InsertByKey(_, _)
\* task put in front of the first task of the sorted list whose key is not
\* larger; task preceded them all in the unsorted list
InsertByKey(task, sorted) ==
    IF sorted = <<>> THEN <<task>>
    ELSE IF SortKey(Head(sorted)) > SortKey(task)
         THEN <<Head(sorted)>> \o InsertByKey(task, Tail(sorted))
         ELSE <<task>> \o sorted

\* the list left in the order the tasks were appended
SortTasksMutant(tasks) == tasks

RECURSIVE SortTasks(_)
\* list.sort(key=..., reverse=True): descending and stable
SortTasks(tasks) ==
    IF tasks = <<>> THEN <<>> ELSE InsertByKey(Head(tasks), SortTasks(Tail(tasks)))

RECURSIVE SearchOptions(_, _)
SearchOptions(timing_options, k) ==
    IF k > Len(timing_options) THEN <<>>
    ELSE <<TaskOption(timing_options[k].window, timing_options[k].expected_reward)>>
         \o SearchOptions(timing_options, k + 1)

RECURSIVE SearchCandidates(_, _)
\* lines 589-613: the tasks as search candidates
SearchCandidates(tasks, i) ==
    IF i > Len(tasks) THEN <<>>
    ELSE <<TaskCandidate(tasks[i].rule_id,
               IF tasks[i].timing_options = <<>>
               THEN <<TaskOption(IF tasks[i].optimal_timing_window \in {None, 0}
                                 THEN 30 ELSE tasks[i].optimal_timing_window,
                                 tasks[i].confidence * 60000)>>
               ELSE SearchOptions(tasks[i].timing_options, 1))>>
         \o SearchCandidates(tasks, i + 1)

\* chosen_timings.get(rule_id): the window of the last schedule entry of
\* the task, None if it has none
ChosenWindow(schedule, rule_id) ==
    LET K == {k \in 1..Len(schedule) : schedule[k][1] = rule_id}
    IN IF K = {} THEN None ELSE schedule[CHOOSE k \in K : \A j \in K : j <= k][2]

\* the confidence of the first timing option with the chosen window
ChosenConfidence(task, chosen_window) ==
    LET K == {k \in 1..Len(task.timing_options) :
                 task.timing_options[k].window = chosen_window}
    IN IF K = {} THEN task.timing_confidence
       ELSE task.timing_options[CHOOSE k \in K : \A j \in K : k <= j].confidence

RECURSIVE UpdatedTasks(_, _, _)
\* lines 627-654: the tasks the search scheduled, with its choice
UpdatedTasks(tasks, res, i) ==
    IF i > Len(tasks) THEN <<>>
    ELSE Let(ChosenWindow(res.schedule, tasks[i].rule_id), LAMBDA chosen_window :
         (IF chosen_window # None
          THEN <<[tasks[i] EXCEPT
                    !.optimal_timing_window = chosen_window,
                    !.timing_confidence = ChosenConfidence(tasks[i], chosen_window)]
                 @@ [search_metadata |->
                        [total_expected_reward |->
                             (res.total_expected_reward + 3000) \div 6000,
                         nodes_explored |-> res.nodes_explored,
                         search_completed |-> res.search_completed,
                         optimization_quality |->
                             IF res.search_completed THEN "optimal"
                             ELSE "greedy_fallback",
                         chosen_timing_window |-> chosen_window]]>>
          ELSE <<>>)
         \o UpdatedTasks(tasks, res, i + 1))

\* Reading task.timing_options in line 591 raises AttributeError for a task
\* without the attribute, and so does a TypeError inside the search; the
\* except branch sorts the tasks as they are.
ApplySearchOptimization(tasks) ==
    IF ~HasAttr(tasks[1], "timing_options") THEN SortTasks(tasks)
    ELSE Let(optimize_schedule(SearchCandidates(tasks, 1), DEFAULT_MAX_NODES, TRUE),
             LAMBDA res :
             IF res.raised THEN SortTasks(tasks)
             ELSE SortTasks(UpdatedTasks(tasks, res, 1)))

(***************************************************************************)
(* inference.py: InferenceEngine.infer_tasks.  Returns the belief table    *)
(* and the events table after the call and the ranked list.                *)
(***************************************************************************)
InferTasks(rls, tbl, evs, context, t, enable_search) ==
    Let(RuleTasksFrom(rls, tbl, context, 1), LAMBDA regular :
    Let(CalendarReminders(evs, rls, context, t), LAMBDA calendar :
    Let(regular.tasks \o calendar.tasks, LAMBDA suggested_tasks :
        [beliefs |-> regular.table,
         events |-> calendar.events,
         tasks |-> IF enable_search /\ Len(suggested_tasks) > 1
                   THEN ApplySearchOptimization(suggested_tasks)
                   ELSE SortTasks(suggested_tasks)])))

(***************************************************************************)
(* The decision engine on a store with rules and one calendar event        *)
(* (SpecDecide): infer_tasks requests, with the clock advancing between    *)
(* them.                                                                   *)
(***************************************************************************)
MaxDecides == 2      \* requests and clock steps per behaviour

\* rule 1 matches the home contexts, rule 2 every still context, rule 3
\* belongs to the calendar event
DecideRules(weight) ==
    <<TaskRule("Gym", [activity |-> S_still, location_vector |-> S_Home], weight, None, TRUE),
      TaskRule("Email", [activity |-> S_STILL], 75, None, TRUE),
      TaskRule("Meeting", <<>>, 50, 1, TRUE)>>

DecideWeights == {65, 95}

\* start_time - now at the start, in half minutes
DecideOffsets == {19, 61, 150}

DecideEvents ==
    {CalendarEvent(1, "Meeting", p, RemindStart + off,
                   OptimalReminderTime(RemindStart + off, p, 0),
                   IF ago = None THEN None ELSE RemindStart - ago,
                   IF ago = None THEN 0 ELSE 1, <<S_Home>>) :
        p \in Priorities, off \in DecideOffsets, ago \in {None, 32}}

\* rows the user has completed or dismissed, otherwise due for a reminder
DoneEvents ==
    {[e EXCEPT !.completed = flags[1], !.dismissed = flags[2]] :
        e \in {d \in DecideEvents : d.start_time = RemindStart + 19
                                     /\ d.last_reminded_at = None},
        flags \in {<<1, 0>>, <<0, 1>>}}

DecideContexts ==
    {UserContext(S_STILL, 0, 8 * 60, S_home),
     UserContext(S_WALKING, 0, 8 * 60, S_my_gym)}

DecideInit ==
    /\ rules \in {DecideRules(w) : w \in DecideWeights}
    /\ events \in {<<e>> : e \in DecideEvents \cup DoneEvents}
    /\ now = RemindStart
    /\ beliefs = <<>>
    /\ feedback_log = <<>>
    /\ last = [n |-> 0, op |-> "none"]
    /\ sessions = <<>>
    /\ candidates = <<>>
    /\ max_nodes = DEFAULT_MAX_NODES
    /\ enable_pruning = TRUE
    /\ search_result = NoResult

\* a decide request: infer_tasks with the request's context at the clock
DoInferTasks ==
    /\ last.n < MaxDecides
    /\ \E context \in DecideContexts, enable_search \in BOOLEAN :
        \E r \in {InferTasks(rules, beliefs, events, context, now, enable_search)} :
           /\ beliefs' = r.beliefs
           /\ events' = r.events
           /\ last' = [n |-> last.n + 1, op |-> "infer_tasks", context |-> context,
                       enable_search |-> enable_search, now |-> now, result |-> r.tasks]
    /\ UNCHANGED <<rules, feedback_log, now, searchVars, sessions>>

\* time passes between requests
DecideTick ==
    /\ last.n < MaxDecides
    /\ \E dt \in ClockSteps : now' = now + dt
    /\ last' = [n |-> last.n + 1, op |-> "tick"]
    /\ UNCHANGED <<rules, beliefs, feedback_log, events, searchVars, sessions>>

DecideNext == DoInferTasks \/ DecideTick

SpecDecide == DecideInit /\ [][DecideNext]_vars

(***************************************************************************)
(* The rule matcher on its own (SpecMatch): _evaluate_rule, which          *)
(* infer_tasks calls for every active rule, applied to one rule and the    *)
(* context of a request.                                                   *)
(***************************************************************************)
MaxMatches == 1      \* _evaluate_rule calls per behaviour

\* the time ranges of the rules: within a day, across midnight, one minute,
\* and one that does not parse
MatchTimeRanges ==
    {TimeRange(9 * 60, 17 * 60), TimeRange(22 * 60, 6 * 60),
     TimeRange(12 * 60, 12 * 60), BadTimeRange}

\* the custom conditions of the rules
MatchCustoms == {[mood |-> "calm"], [mood |-> "calm", battery |-> "low"]}

\* a trigger condition that sets every key
FullTrigger(time_range, custom) ==
    [activity |-> S_still, time_range |-> time_range, location_vector |-> S_Home,
     car_bluetooth |-> FALSE, wifi_ssid |-> S_disconnected, min_speed |-> 0,
     custom |-> custom]

\* the trigger conditions: every choice of keys
MatchTriggers ==
    {[key \in keys |-> FullTrigger(time_range, custom)[key]] :
        keys \in SUBSET (TRIGGER_KEYS \cup {"custom"}),
        time_range \in MatchTimeRanges, custom \in MatchCustoms}

\* timestamps: minute and second of the day, at and next to the ends of the
\* ranges
MatchTimes ==
    {<<0, 0>>, <<6 * 60, 0>>, <<6 * 60, 1>>, <<8 * 60 + 59, 59>>, <<9 * 60, 0>>,
     <<12 * 60, 0>>, <<12 * 60, 30>>, <<17 * 60, 0>>, <<17 * 60, 30>>,
     <<21 * 60 + 59, 59>>, <<22 * 60, 0>>}

\* additional_data of the contexts: none, one key, both keys
MatchData == {<<>>, [mood |-> "calm"], [mood |-> "tense", battery |-> "low"]}

\* the contexts: every timestamp in one situation, every situation at one
\* timestamp
MatchContexts ==
    {[UserContext(S_STILL, 0, time[1], S_home) EXCEPT !.second = time[2]] :
        time \in MatchTimes}
    \cup {[UserContext(act, 0, 9 * 60, loc) EXCEPT !.additional_data = data] :
            act \in {S_STILL, S_WALKING}, loc \in {S_home, NoneStr}, data \in MatchData}

MatchInit ==
    /\ rules \in {<<TaskRule("Gym", trigger, 95, None, TRUE)>> : trigger \in MatchTriggers}
    /\ beliefs = <<>>
    /\ feedback_log = <<>>
    /\ events = <<>>
    /\ now = 0
    /\ last = [n |-> 0, op |-> "none"]
    /\ sessions = <<>>
    /\ candidates = <<>>
    /\ max_nodes = DEFAULT_MAX_NODES
    /\ enable_pruning = TRUE
    /\ search_result = NoResult

\* _evaluate_rule(rule, context)
DoEvaluateRule ==
    /\ last.n < MaxMatches
    /\ \E context \in MatchContexts :
         last' = [n |-> last.n + 1, op |-> "evaluate_rule", rule |-> rules[1],
                  context |-> context, result |-> EvaluateRule(rules[1], context)]
    /\ UNCHANGED <<rules, beliefs, feedback_log, events, now, searchVars, sessions>>

MatchNext == DoEvaluateRule

SpecMatch == MatchInit /\ [][MatchNext]_vars

(***************************************************************************)
(* Feedback requests running at the same time (SpecRace).  The handlers    *)
(* are plain functions, which the server runs on worker threads, and       *)
(* get_db gives each request its own session on the one SQLite file.  A    *)
(* request is the sequence of its database statements; statements of       *)
(* different requests interleave.                                          *)
(*   A SELECT reads the committed tables (a session also sees the row it   *)
(* has flushed itself).  The session keeps the objects it loaded; an       *)
(* assignment to a loaded object changes the session's copy, and the       *)
(* flush of commit() writes UPDATE ... SET <changed columns> = <the        *)
(* session's values> for it.  SQLite admits one write transaction at a     *)
(* time: the flush() of a new row holds the write lock until the commit,   *)
(* and other writers wait.                                                 *)
(*   All requests are for rule 1 in HomeContext, so both services address  *)
(* the triple (task_name, context key, 30).                                *)
(***************************************************************************)
MaxWriters == 2      \* requests in flight at the same time

RaceKey == OptimizerContextKey(HomeContext)

\* initial weights of rule 1, in hundredths
RaceWeights == {0, 5, 95, 100}

\* initial tables: without the triple, and with it
RaceTables ==
    {<<>>,
     <<BeliefRow("Gym", RaceKey, 10, 4, 2)>>,
     <<BeliefRow("Gym", RaceKey, 10, 4, 2), BeliefRow("Gym", RaceKey, 30, 4, 2)>>,
     <<[BeliefRow("Gym", RaceKey, 30, 3, 2) EXCEPT !.total_triggers = 3]>>}

\* the session of a request that has not arrived; params.id is the row of
\* the loaded BayesianTimingParametersDB object, 0 before the query and for
\* an object that is flushed but not committed
IdleSession ==
    [pc |-> "idle", op |-> "none", accepted |-> FALSE, old_weight |-> None,
     params |-> [id |-> 0, alpha |-> 0, beta |-> 0, total_triggers |-> 0],
     pending |-> FALSE, lock |-> FALSE]

\* the object of row i as the session loads it
LoadParams(tbl, i) ==
    [id |-> i, alpha |-> tbl[i].alpha, beta |-> tbl[i].beta,
     total_triggers |-> tbl[i].total_triggers]

\* another session holds the write lock
LockedByOther(p) == \E q \in DOMAIN sessions : q # p /\ sessions[q].lock

\* the UPDATE of the flush: the columns the request assigned, at the values
\* of the session's object
WriteParams(tbl, params, accepted) ==
    IF accepted
    THEN [tbl EXCEPT ![params.id].alpha = params.alpha + 1,
                     ![params.id].total_triggers = params.total_triggers + 1]
    ELSE [tbl EXCEPT ![params.id].beta = params.beta + 1,
                     ![params.id].total_triggers = params.total_triggers + 1]

\* the INSERT of a new object with the request's increment applied
InsertParams(tbl, params, accepted) ==
    Append(tbl, BumpRow(BeliefRow("Gym", RaceKey, APPLY_FEEDBACK_WINDOW,
                                  params.alpha, params.beta), accepted))

\* the rule UPDATE and the feedback_logs INSERT the request has pending
WritePending(p) ==
    /\ rules' = [rules EXCEPT ![1].current_probability_weight =
                     AdjustWeight(sessions[p].old_weight, sessions[p].accepted)]
    /\ feedback_log' = Append(feedback_log,
                              FeedbackLog(1, IF sessions[p].accepted THEN "accepted"
                                             ELSE "rejected",
                                          IF sessions[p].op = "apply_feedback"
                                          THEN HomeContext
                                          ELSE [context_key |-> LearningContextKey(HomeContext),
                                                timing_window |-> APPLY_FEEDBACK_WINDOW]))

\* last in SpecRace: the number of requests completed, the table at the
\* start, and for every row the number of feedback updates written to it
RaceInit ==
    /\ rules \in {(1 :> TaskRule("Gym", <<>>, w, None, TRUE)) : w \in RaceWeights}
    /\ beliefs \in RaceTables
    /\ feedback_log = <<>>
    /\ events = <<>>
    /\ now = 0
    /\ sessions = [p \in 1..MaxWriters |-> IdleSession]
    /\ last = [n |-> 0, op |-> "none", beliefs0 |-> beliefs,
               applied |-> [i \in 1..Len(beliefs) |-> 0]]
    /\ candidates = <<>>
    /\ max_nodes = DEFAULT_MAX_NODES
    /\ enable_pruning = TRUE
    /\ search_result = NoResult

\* a request arrives: apply_feedback(1, outcome, HomeContext) or
\* record_feedback(1, "Gym", HomeContext, 30, feedback)
RaceBegin(p) ==
    /\ sessions[p].pc = "idle"
    /\ \E op \in {"apply_feedback", "record_feedback"}, accepted \in BOOLEAN :
         sessions' = [sessions EXCEPT ![p] =
                        [IdleSession EXCEPT !.op = op, !.accepted = accepted,
                                            !.pc = IF op = "apply_feedback"
                                                   THEN "rule" ELSE "query"]]
    /\ UNCHANGED <<rules, beliefs, feedback_log, events, now, last, searchVars>>

\* apply_feedback line 828 and _update_rule_weight line 190: the rule query;
\* the new weight and, in apply_feedback, the log entry are now pending
RaceReadRule(p) ==
    /\ sessions[p].pc = "rule"
    /\ sessions' = [sessions EXCEPT ![p].old_weight = rules[1].current_probability_weight,
                                    ![p].pending = TRUE,
                                    ![p].pc = IF sessions[p].op = "apply_feedback"
                                              THEN "query" ELSE "commit"]
    /\ UNCHANGED <<rules, beliefs, feedback_log, events, now, last, searchVars>>

\* the query .first() of _get_or_create_parameters and of
\* _update_beta_distribution
RaceQuery(p) ==
    /\ sessions[p].pc = "query"
    /\ \E i \in {FindRow(beliefs, "Gym", RaceKey, APPLY_FEEDBACK_WINDOW)} :
         sessions' = [sessions EXCEPT
            ![p].params = IF i = 0 THEN @ ELSE LoadParams(beliefs, i),
            ![p].pc = IF i # 0
                      THEN (IF sessions[p].op = "apply_feedback" THEN "commit" ELSE "rule")
                      ELSE (IF sessions[p].op = "apply_feedback" THEN "insert" ELSE "flush")]
    /\ UNCHANGED <<rules, beliefs, feedback_log, events, now, last, searchVars>>

\* _get_or_create_parameters lines 155-166: add and commit of the new row
\* with the optimizer's prior; the commit also writes what was pending
RaceInsertCommit(p) ==
    /\ sessions[p].pc = "insert"
    /\ ~LockedByOther(p)
    /\ beliefs' = Append(beliefs, BeliefRow("Gym", RaceKey, APPLY_FEEDBACK_WINDOW,
                                            OPTIMIZER_PRIOR[1], OPTIMIZER_PRIOR[2]))
    /\ WritePending(p)
    /\ sessions' = [sessions EXCEPT ![p].params.id = Len(beliefs) + 1,
                                    ![p].pending = FALSE,
                                    ![p].pc = "refresh"]
    /\ last' = [last EXCEPT !.applied = Append(@, 0)]
    /\ UNCHANGED <<events, now, searchVars>>

\* _get_or_create_parameters line 167: refresh reloads the new row
RaceRefresh(p) ==
    /\ sessions[p].pc = "refresh"
    /\ sessions' = [sessions EXCEPT ![p].params = LoadParams(beliefs, sessions[p].params.id),
                                    ![p].pc = "commit"]
    /\ UNCHANGED <<rules, beliefs, feedback_log, events, now, last, searchVars>>

\* _update_beta_distribution lines 151-161: add and flush of the new row
\* with the learning service's prior; the transaction stays open
RaceFlush(p) ==
    /\ sessions[p].pc = "flush"
    /\ ~LockedByOther(p)
    /\ sessions' = [sessions EXCEPT
                      ![p].params = [id |-> 0, alpha |-> LEARNING_PRIOR[1],
                                     beta |-> LEARNING_PRIOR[2], total_triggers |-> 0],
                      ![p].lock = TRUE,
                      ![p].pc = "rule"]
    /\ UNCHANGED <<rules, beliefs, feedback_log, events, now, last, searchVars>>

\* update_from_feedback lines 117-124 and record_feedback line 96: the
\* increment of the session's object and the commit
RaceCommit(p) ==
    /\ sessions[p].pc = "commit"
    /\ ~LockedByOther(p)
    /\ beliefs' = IF sessions[p].params.id = 0
                  THEN InsertParams(beliefs, sessions[p].params, sessions[p].accepted)
                  ELSE WriteParams(beliefs, sessions[p].params, sessions[p].accepted)
    /\ IF sessions[p].pending THEN WritePending(p)
       ELSE UNCHANGED <<rules, feedback_log>>
    /\ sessions' = [sessions EXCEPT ![p].pending = FALSE, ![p].lock = FALSE,
                                    ![p].pc = "done"]
    /\ last' = [last EXCEPT
                  !.n = @ + 1,
                  !.applied = IF sessions[p].params.id = 0 THEN Append(@, 1)
                              ELSE [@ EXCEPT ![sessions[p].params.id] = @ + 1]]
    /\ UNCHANGED <<events, now, searchVars>>

RaceNext ==
    \E p \in 1..MaxWriters :
        \/ RaceBegin(p)
        \/ RaceReadRule(p)
        \/ RaceQuery(p)
        \/ RaceInsertCommit(p)
        \/ RaceRefresh(p)
        \/ RaceFlush(p)
        \/ RaceCommit(p)

SpecRace == RaceInit /\ [][RaceNext]_vars

(***************************************************************************)
(* The rule loop of infer_tasks on stores without calendar events          *)
(* (SpecSuggest): rules of different weight, active and inactive, with      *)
(* belief records that three rejects each have pushed below the threshold  *)
(* or with none.                                                           *)
(***************************************************************************)
SuggestWeights == {55, 65, 95}

\* rule 1 has two predicates, rule 2 one, rule 3 five of which the home
\* context meets four
SuggestRules(weight, active) ==
    <<TaskRule("Gym", [activity |-> S_still, location_vector |-> S_Home], weight, None, active),
      TaskRule("Email", [activity |-> S_STILL], 75, None, TRUE),
      TaskRule("Call", [activity |-> S_STILL, location_vector |-> S_home,
                        wifi_ssid |-> S_disconnected, min_speed |-> 0,
                        car_bluetooth |-> TRUE], 80, None, TRUE)>>

\* the records of task_type in the home context after four rejects on each
\* window: Beta(4, 6), confidence 0.4
RejectedBeliefs(task_type) ==
    [k \in 1..Len(TIMING_WINDOWS) |->
        [BeliefRow(task_type, OptimizerContextKey(HomeContext), TIMING_WINDOWS[k], 4, 6)
            EXCEPT !.total_triggers = 4]]

SuggestInit ==
    /\ rules \in {SuggestRules(w, a) : w \in SuggestWeights, a \in BOOLEAN}
    /\ beliefs \in {<<>>, RejectedBeliefs("Gym"), RejectedBeliefs("Call")}
    /\ events = <<>>
    /\ now = RemindStart
    /\ feedback_log = <<>>
    /\ last = [n |-> 0, op |-> "none"]
    /\ sessions = <<>>
    /\ candidates = <<>>
    /\ max_nodes = DEFAULT_MAX_NODES
    /\ enable_pruning = TRUE
    /\ search_result = NoResult

SpecSuggest == SuggestInit /\ [][DecideNext]_vars

\* learning_service.py line 309: the feedback_count get_learning_summary
\* reports for a record, int(alpha + beta - 2)
feedback_count(params) == params.alpha + params.beta - 2

(***************************************************************************)
(* The timing optimizer and the learning service on one store              *)
(* (SpecTiming): get_optimal_timing calls and LearningService              *)
(* record_feedback calls for one task type, from an empty belief table.    *)
(* last keeps the table before the call and the outcome of the call        *)
(* before it.                                                              *)
(***************************************************************************)
MaxTimingCalls == 4   \* calls per behaviour

\* the windows and the feedback strings of the record_feedback calls
TimingFeedbackWindows == {60, 30}
TimingFeedbackStrings == {S_Accept, S_rejected}

\* the contexts of the calls: one for which the two context-key generators
\* agree, and one whose location has a space, which only the learning
\* service replaces
TimingContexts == {HomeContext, UserContext(S_STILL, 0, 8 * 60, S_my_gym)}

\* what the next call keeps of the call in last
Previous(call) ==
    IF call.op = "get_optimal_timing"
    THEN [op |-> call.op, context |-> call.context, result |-> call.result]
    ELSE [op |-> call.op]

TimingInit ==
    /\ rules = LearnRules
    /\ beliefs = <<>>
    /\ feedback_log = <<>>
    /\ last = [n |-> 0, op |-> "none"]
    /\ sessions = <<>>
    /\ events = <<>>
    /\ now = 0
    /\ candidates = <<>>
    /\ max_nodes = DEFAULT_MAX_NODES
    /\ enable_pruning = TRUE
    /\ search_result = NoResult

\* a get_optimal_timing call
TimingGet ==
    /\ last.n < MaxTimingCalls
    /\ \E context \in TimingContexts :
        \E r \in {GetOptimalTiming(beliefs, "Gym", context)} :
           /\ beliefs' = r.table
           /\ last' = [n |-> last.n + 1, op |-> "get_optimal_timing",
                       context |-> context,
                       result |-> [timing_window |-> r.result.timing_window,
                                   confidence |-> r.result.confidence,
                                   all_windows |-> r.result.all_windows],
                       before |-> beliefs, previous |-> Previous(last)]
    /\ UNCHANGED <<rules, feedback_log, events, now, searchVars, sessions>>

\* a LearningService.record_feedback call for the rule of the task type
TimingRecord ==
    /\ last.n < MaxTimingCalls
    /\ \E context \in TimingContexts, w \in TimingFeedbackWindows,
          feedback \in TimingFeedbackStrings :
        \E r \in {RecordFeedback(CurrentStore, 1, "Gym", context, w, feedback)} :
           /\ SetStore(r.store)
           /\ last' = [n |-> last.n + 1, op |-> "record_feedback",
                       context |-> context, timing_window |-> w,
                       feedback |-> feedback, before |-> beliefs,
                       previous |-> Previous(last)]
    /\ UNCHANGED <<events, now, searchVars, sessions>>

TimingNext == TimingGet \/ TimingRecord

SpecTiming == TimingInit /\ [][TimingNext]_vars

(***************************************************************************)
(* calendar_parser.py: ParsedCalendarTask.get_optimal_reminder_time on the *)
(* tasks CalendarTaskParser.parse builds (SpecParse).  A task carries its  *)
(* start time, its priority, the preparation flag and the two estimates;   *)
(* an estimate that was not made is None.                                  *)
(***************************************************************************)
ParsedCalendarTask(start_time, priority, preparation_required, preparation_time_minutes, travel_time_minutes) ==
    [start_time |-> start_time, priority |-> priority,
     preparation_required |-> preparation_required,
     preparation_time_minutes |-> preparation_time_minutes,
     travel_time_minutes |-> travel_time_minutes]

\* _estimate_preparation_time: None without the flag, else 30, 15 or 10
PreparationEstimates(preparation_required) ==
    IF preparation_required THEN {30, 15, 10} ELSE {None}

\* _estimate_travel_time: None for a task that does not depend on a
\* location, else 30, 25, 20, 15 or 0
TravelEstimates == {None, 30, 25, 20, 15, 0}

\* start times: none, and two times in half minutes
ParsedStarts == {None, 2000, 2881}

ParsedTasks ==
    {ParsedCalendarTask(s, p, r, pt, tt) :
        s \in ParsedStarts, p \in {"high", "medium", "low"}, r \in BOOLEAN,
        pt \in {10, 15, 30, None}, tt \in TravelEstimates}

\* lines 79-83: the minutes the two estimates add to the lead time; None
\* and 0 are falsy
CountedMinutes(task) ==
    (IF task.preparation_required /\ task.preparation_time_minutes \notin {None, 0}
     THEN task.preparation_time_minutes ELSE 0)
    + (IF task.travel_time_minutes \notin {None, 0} THEN task.travel_time_minutes ELSE 0)

get_optimal_reminder_time(task) ==
    IF task.start_time = None THEN None
    ELSE OptimalReminderTime(task.start_time, task.priority, CountedMinutes(task))

ParseInit ==
    /\ \E task \in ParsedTasks :
          /\ task.preparation_time_minutes
                \in PreparationEstimates(task.preparation_required)
          /\ last = [n |-> 0, op |-> "parse", task |-> task]
    /\ rules = <<>>
    /\ beliefs = <<>>
    /\ feedback_log = <<>>
    /\ sessions = <<>>
    /\ events = <<>>
    /\ now = 0
    /\ candidates = <<>>
    /\ max_nodes = DEFAULT_MAX_NODES
    /\ enable_pruning = TRUE
    /\ search_result = NoResult

DoGetOptimalReminderTime ==
    /\ last.op = "parse"
    /\ last' = [n |-> 1, op |-> "get_optimal_reminder_time", task |-> last.task,
                result |-> get_optimal_reminder_time(last.task)]
    /\ UNCHANGED <<rules, beliefs, feedback_log, events, now, searchVars, sessions>>

SpecParse == ParseInit /\ [][DoGetOptimalReminderTime]_vars

(***************************************************************************)
(* main.py: create_task, the POST /create-task handler, and decide         *)
(* requests around the scheduled time of the task it stored (SpecCreate).  *)
(* A scheduled time is a minute of a Monday; the request carries no        *)
(* trigger_conditions of its own.                                          *)
(***************************************************************************)
MaxCreatedInfers == 2   \* decide requests after the task was created

\* lines 370-375: the initial weight for the priority, in hundredths
InitialWeight(priority) ==
    IF priority = "high" THEN 85 ELSE IF priority = "low" THEN 65 ELSE 75

\* lines 363-367: f"{start_hour:02d}:00-{end_hour:02d}:00" for the hour
\* before and the hour after the hour of scheduled_time, as
\* _is_time_in_range parses it
ScheduledTimeRange(scheduled_time) ==
    LET hour == scheduled_time \div 60
    IN TimeRange(60 * Max(0, hour - 1), 60 * Min(23, hour + 1))

\* lines 357-367: the trigger condition of the new rule
CreatedTrigger(scheduled_time, location_context) ==
    (IF Truthy(location_context) THEN [location_vector |-> location_context] ELSE <<>>)
    @@ (IF scheduled_time # None
        THEN [time_range |-> ScheduledTimeRange(scheduled_time)] ELSE <<>>)

\* the rule table after create_task
create_task(rls, task_name, scheduled_time, priority, location_context) ==
    Append(rls, TaskRule(task_name, CreatedTrigger(scheduled_time, location_context),
                         InitialWeight(priority), None, TRUE))

\* scheduled times: on the hour, within an hour, in the last and in the
\* first hour of the day
ScheduledTimes == {17 * 60, 17 * 60 + 30, 9 * 60 + 15, 23 * 60 + 30, 10}

\* minutes between the scheduled time and the timestamp of a decide request
CreatedOffsets == {0 - 15, 45}

\* the context of a decide request offset minutes after the scheduled time
ContextAround(scheduled_time, offset, location) ==
    LET t == scheduled_time + offset
    IN UserContext(S_STILL,
                   IF t < 0 THEN 6 ELSE IF t >= 24 * 60 THEN 1 ELSE 0,
                   (t + 24 * 60) % (24 * 60), location)

CreateInit ==
    /\ rules = <<>>
    /\ beliefs = <<>>
    /\ feedback_log = <<>>
    /\ last = [n |-> 0, op |-> "none"]
    /\ sessions = <<>>
    /\ events = <<>>
    /\ now = 0
    /\ candidates = <<>>
    /\ max_nodes = DEFAULT_MAX_NODES
    /\ enable_pruning = TRUE
    /\ search_result = NoResult

\* a POST /create-task request with a scheduled time and a location context
DoCreateTask ==
    /\ rules = <<>>
    /\ \E scheduled_time \in ScheduledTimes, priority \in {"high", "medium", "low"} :
          /\ rules' = create_task(rules, "Dentist", scheduled_time, priority, S_Home)
          /\ last' = [n |-> 0, op |-> "create_task", scheduled_time |-> scheduled_time,
                      location_context |-> S_Home]
    /\ UNCHANGED <<beliefs, feedback_log, events, now, searchVars, sessions>>

\* a decide request before or after the scheduled time of the task
DoInferCreated ==
    /\ rules # <<>>
    /\ last.n < MaxCreatedInfers
    /\ \E offset \in CreatedOffsets, location \in {S_home, S_my_gym},
          enable_search \in BOOLEAN :
        \E context \in {ContextAround(last.scheduled_time, offset, location)} :
        \E r \in {InferTasks(rules, beliefs, events, context, now, enable_search)} :
           /\ beliefs' = r.beliefs
           /\ events' = r.events
           /\ last' = [n |-> last.n + 1, op |-> "infer_tasks",
                       scheduled_time |-> last.scheduled_time,
                       location_context |-> last.location_context,
                       offset |-> offset, context |-> context, result |-> r.tasks]
    /\ UNCHANGED <<rules, feedback_log, now, searchVars, sessions>>

CreateNext == DoCreateTask \/ DoInferCreated

SpecCreate == CreateInit /\ [][CreateNext]_vars

(***************************************************************************)
(* Decide requests running at the same time on one calendar event          *)
(* (SpecReminderRace).  As in SpecRace every request has its own session.  *)
(* _get_calendar_reminders reads the clock, loads the upcoming events with *)
(* one SELECT and evaluates the policy on the objects it loaded; an        *)
(* eligible evaluation assigns last_reminded_at and reminder_count on the  *)
(* session's object and commits, which writes UPDATE ... SET the two       *)
(* columns to the session's values.  No statement reads the row again      *)
(* between the SELECT and the UPDATE.                                      *)
(***************************************************************************)
\* the events at the start: never reminded, due now or not yet
ReminderRaceEvents ==
    {CalendarEvent(1, "Meeting", p, RemindStart + off,
                   OptimalReminderTime(RemindStart + off, p, 0), None, 0, <<S_Home>>) :
        p \in Priorities, off \in {19, 150}}

\* the session of a request that has not arrived
IdleDecide == [pc |-> "idle", now |-> 0, context |-> HomeContext, event |-> <<>>]

\* last in SpecReminderRace: the requests completed, the clock steps taken,
\* and for every eligible evaluation the clock value of its request
ReminderRaceInit ==
    /\ events \in {<<e>> : e \in ReminderRaceEvents}
    /\ now = RemindStart
    /\ rules = <<>>
    /\ beliefs = <<>>
    /\ feedback_log = <<>>
    /\ sessions = [p \in 1..MaxWriters |-> IdleDecide]
    /\ last = [n |-> 0, op |-> "none", ticks |-> 0, fired |-> <<>>]
    /\ candidates = <<>>
    /\ max_nodes = DEFAULT_MAX_NODES
    /\ enable_pruning = TRUE
    /\ search_result = NoResult

\* line 365: a request arrives and reads the clock
ReadClock(p) ==
    /\ sessions[p].pc = "idle"
    /\ \E context \in RemindContexts :
         sessions' = [sessions EXCEPT ![p] = [IdleDecide EXCEPT !.pc = "query", !.now = now,
                                                                !.context = context]]
    /\ UNCHANGED <<rules, beliefs, feedback_log, events, now, last, searchVars>>

\* lines 369-375: the SELECT of the upcoming events loads the committed rows
QueryUpcoming(p) ==
    /\ sessions[p].pc = "query"
    /\ IF Upcoming(events[1], sessions[p].now)
       THEN /\ sessions' = [sessions EXCEPT ![p].event = events[1], ![p].pc = "evaluate"]
            /\ last' = last
       ELSE /\ sessions' = [sessions EXCEPT ![p].pc = "done"]
            /\ last' = [last EXCEPT !.n = @ + 1]
    /\ UNCHANGED <<rules, beliefs, feedback_log, events, now, searchVars>>

\* lines 377-378 and 470-473, 503-505, 545-547: the policy on the loaded
\* object and, when eligible, the commit of its two assigned columns
EvaluateLoaded(p) ==
    /\ sessions[p].pc = "evaluate"
    /\ \E r \in {ShouldRemindAboutEvent(sessions[p].event, sessions[p].context,
                                         sessions[p].now)} :
         /\ events' = IF r.result.should_remind
                       THEN [events EXCEPT ![1].last_reminded_at = r.event.last_reminded_at,
                                           ![1].reminder_count = r.event.reminder_count]
                       ELSE events
         /\ last' = [last EXCEPT !.n = @ + 1,
                                  !.op = "should_remind",
                                  !.fired = IF r.result.should_remind
                                            THEN Append(@, sessions[p].now) ELSE @]
    /\ sessions' = [sessions EXCEPT ![p].pc = "done"]
    /\ UNCHANGED <<rules, beliefs, feedback_log, now, searchVars>>

\* time passes
RaceTick ==
    /\ last.ticks < MaxSteps
    /\ \E dt \in ClockSteps : now' = now + dt
    /\ last' = [last EXCEPT !.ticks = @ + 1]
    /\ UNCHANGED <<rules, beliefs, feedback_log, events, searchVars, sessions>>

ReminderRaceNext ==
    \/ \E p \in 1..MaxWriters : ReadClock(p) \/ QueryUpcoming(p) \/ EvaluateLoaded(p)
    \/ RaceTick

SpecReminderRace == ReminderRaceInit /\ [][ReminderRaceNext]_vars

(***************************************************************************)
(* main.py: sync_calendar_events, the POST /calendar/sync handler, for one *)
(* event of the request, and decide requests after it (SpecSync).  The     *)
(* handler builds the dictionary the parser reads; its 'start' entry has   *)
(* the keys 'dateTime' and 'date' whenever the event has a start time, and *)
(* the value of 'date' is None unless the event is an all-day event.       *)
(***************************************************************************)
HalfMinutesPerDay == Minutes(24 * 60)

\* datetime.fromisoformat of the date of a datetime: its midnight
DateOf(start_time) == start_time - (start_time % HalfMinutesPerDay)

\* calendar_parser.py lines 280-306: _parse_time_info on that dictionary.
\* 'date' in start holds for every event with a start time, so the event is
\* taken for an all-day event; start.get('date') is None for a timed one
ParseTimeInfo(start_time, is_all_day) ==
    IF start_time = None
    THEN [start_time |-> None, is_all_day |-> FALSE]
    ELSE [start_time |-> IF is_all_day THEN DateOf(start_time) ELSE None,
          is_all_day |-> TRUE]

\* main.py lines 443-491: the row of the event is updated or created
SyncedEvents(evs, event_id, title, parsed, optimal_reminder_time, suggested_contexts) ==
    LET K == {i \in 1..Len(evs) : evs[i].event_id = event_id}
    IN IF K # {}
       THEN [evs EXCEPT ![CHOOSE i \in K : \A j \in K : i <= j] =
                [@ EXCEPT !.title = title, !.start_time = parsed.start_time,
                          !.priority = parsed.priority,
                          !.optimal_reminder_time = optimal_reminder_time,
                          !.suggested_contexts = suggested_contexts]]
       ELSE Append(evs, CalendarEvent(event_id, title, parsed.priority, parsed.start_time,
                                      optimal_reminder_time, None, 0, suggested_contexts))

\* main.py lines 497-541: the rule of the event is created, or updated,
\* for an event with a start time that is not an all-day event
SyncedRules(rls, event_id, title, parsed, is_all_day) ==
    IF parsed.start_time # None /\ ~is_all_day
    THEN IF RuleOfEvent(rls, event_id) # 0
         THEN [rls EXCEPT ![RuleOfEvent(rls, event_id)].task_name = title,
                          ![RuleOfEvent(rls, event_id)].trigger_condition =
                               [calendar_event |-> TRUE, priority |-> parsed.priority]]
         ELSE Append(rls, TaskRule(title, [calendar_event |-> TRUE,
                                           priority |-> parsed.priority],
                                   InitialWeight(parsed.priority), event_id, TRUE))
    ELSE rls

\* the rules of the store: the two regular rules of SpecDecide
SyncRules == SubSeq(DecideRules(95), 1, 2)

\* start times of the synced event, in half minutes: none, and 14:00 of the
\* day after the origin
SyncStarts == {None, HalfMinutesPerDay + Minutes(14 * 60)}

\* the clock: 23:45 of the first day
SyncClock == HalfMinutesPerDay - Minutes(15)

SyncInit ==
    /\ rules = SyncRules
    /\ events = <<>>
    /\ now = SyncClock
    /\ beliefs = <<>>
    /\ feedback_log = <<>>
    /\ last = [n |-> 0, op |-> "none"]
    /\ sessions = <<>>
    /\ candidates = <<>>
    /\ max_nodes = DEFAULT_MAX_NODES
    /\ enable_pruning = TRUE
    /\ search_result = NoResult

\* one event of a sync request: its start time and all-day flag, the
\* priority and the estimates the parser derives from its text
DoSyncEvent ==
    /\ last.n < MaxDecides
    /\ \E start_time \in SyncStarts, is_all_day \in BOOLEAN, priority \in Priorities,
          travel \in {None, 20}, suggested \in {<<>>, <<S_night, S_weekday>>} :
         LET info == ParseTimeInfo(start_time, is_all_day)
             parsed == ParsedCalendarTask(info.start_time, priority, FALSE, None, travel)
         IN /\ events' = SyncedEvents(events, 1, "Meeting", parsed,
                                        get_optimal_reminder_time(parsed), suggested)
            /\ rules' = SyncedRules(rules, 1, "Meeting", parsed, info.is_all_day)
            /\ last' = [n |-> last.n + 1, op |-> "sync_calendar_events",
                         start_time |-> start_time, is_all_day |-> is_all_day]
    /\ UNCHANGED <<beliefs, feedback_log, now, searchVars, sessions>>

SyncNext == DoSyncEvent \/ DoInferTasks

SpecSync == SyncInit /\ [][SyncNext]_vars

(***************************************************************************)
(* main.py: update_rule, the PUT /rules/{rule_id} handler, and decide      *)
(* requests after it (SpecUpdate), on the store of SpecDecide with an      *)
(* event that is due.  The client sends the rule back as it is, with the   *)
(* active flag of its choice.                                              *)
(***************************************************************************)
\* lines 242-256: the rule table after the handler; an unknown id is
\* answered with 404
update_rule(rls, rule_id, task_name, trigger_condition, weight, is_active) ==
    IF rule_id \notin 1..Len(rls) THEN rls
    ELSE [rls EXCEPT ![rule_id] = [@ EXCEPT !.task_name = task_name,
                                            !.trigger_condition = trigger_condition,
                                            !.current_probability_weight = weight,
                                            !.is_active = is_active]]

UpdateInit ==
    /\ rules = DecideRules(95)
    /\ events \in {<<e>> : e \in {d \in DecideEvents : /\ d.start_time = RemindStart + 19
                                                        /\ d.last_reminded_at = None}}
    /\ now = RemindStart
    /\ beliefs = <<>>
    /\ feedback_log = <<>>
    /\ last = [n |-> 0, op |-> "none"]
    /\ sessions = <<>>
    /\ candidates = <<>>
    /\ max_nodes = DEFAULT_MAX_NODES
    /\ enable_pruning = TRUE
    /\ search_result = NoResult

DoUpdateRule ==
    /\ last.n < MaxDecides
    /\ \E rule_id \in 1..Len(rules), is_active \in BOOLEAN :
         /\ rules' = update_rule(rules, rule_id, rules[rule_id].task_name,
                                  rules[rule_id].trigger_condition,
                                  rules[rule_id].current_probability_weight, is_active)
         /\ last' = [n |-> last.n + 1, op |-> "update_rule", rule_id |-> rule_id,
                      is_active |-> is_active]
    /\ UNCHANGED <<beliefs, feedback_log, events, now, searchVars, sessions>>

UpdateNext == DoUpdateRule \/ DoInferTasks

SpecUpdate == UpdateInit /\ [][UpdateNext]_vars

(***************************************************************************)
(* Properties of the learning store (SpecLearn).                           *)
(***************************************************************************)
\* the step is a request of one of the three feedback entry points
FeedbackStep ==
    /\ last'.n = last.n + 1
    /\ last'.op \in {"record_feedback", "apply_feedback", "provide_feedback"}

\* the action string of the request in last is one its entry point accepts
ValidAction(call) ==
    IF call.op = "record_feedback" THEN Lower(call.action) \in FEEDBACK_WORDS
    ELSE call.action \in {"positive", "negative"}

AcceptAction(call) ==
    IF call.op = "record_feedback" THEN Lower(call.action) \in ACCEPT_WORDS
    ELSE call.action = "positive"

\* C4: a triple without a record is created with one and the same prior
\* whichever operation creates it: all records created so far, by
\* get_optimal_timing, update_from_feedback or record_feedback, started from
\* the same (alpha0, beta0).
C4_OnePrior == Cardinality(last.priors) <= 1

\* C5: after k consecutive accept updates of a triple that started at
\* (a0, b0) the record holds alpha = a0 + k and beta = b0 and its confidence
\* is above the confidence (a0+k-1)/(a0+b0+k-1) of one update earlier; after
\* k consecutive rejects it holds alpha = a0 and beta = b0 + k, its
\* confidence is below that of one update earlier and is not 0.
C5_Streaks ==
    LET s == last.streak
        i == FindRow(beliefs, s.task_type, s.context_key, s.timing_window)
        total0 == s.a0 + s.b0
    IN s.kind # "none" =>
          /\ i # 0
          /\ s.kind = "accept" =>
                /\ beliefs[i].alpha = s.a0 + s.k
                /\ beliefs[i].beta = s.b0
                /\ beliefs[i].alpha * (total0 + s.k - 1)
                      > (s.a0 + s.k - 1) * (beliefs[i].alpha + beliefs[i].beta)
          /\ s.kind = "reject" =>
                /\ beliefs[i].alpha = s.a0
                /\ beliefs[i].beta = s.b0 + s.k
                /\ beliefs[i].alpha * (total0 + s.k - 1)
                      < s.a0 * (beliefs[i].alpha + beliefs[i].beta)
                /\ beliefs[i].alpha > 0

\* three accepts in a row on one triple have been applied
C5_Witness == last.streak.kind = "accept" /\ last.streak.k = 3

\* C6: a feedback request naming a task id without a rule is answered
\* "not found" and leaves rule weights, belief records and the feedback log
\* as they were.
C6_UnknownTaskNoMutation ==
    [][(FeedbackStep /\ ValidAction(last') /\ last'.rule_id \notin DOMAIN rules)
       => /\ ~last'.result.success
          /\ last'.result.message = "Rule not found"
          /\ UNCHANGED <<rules, beliefs, feedback_log>>]_vars

\* C7: a record_feedback or apply_feedback call with an action string that
\* is not accepted returns an error result and leaves rule weights, belief
\* records and the feedback log as they were.
C7_InvalidActionNoMutation ==
    [][(/\ last'.n = last.n + 1
        /\ last'.op \in {"record_feedback", "apply_feedback"}
        /\ ~ValidAction(last'))
       => /\ ~last'.result.success
          /\ UNCHANGED <<rules, beliefs, feedback_log>>]_vars

\* a record_feedback call with an invalid string was made on a store that
\* already holds belief records and log entries
C7_Witness ==
    /\ last.op = "record_feedback"
    /\ last.rule_id \in DOMAIN rules
    /\ ~ValidAction(last)
    /\ beliefs # <<>>
    /\ feedback_log # <<>>

\* the record of the triple went up by one on the side of the feedback
BeliefBumped(tbl1, tbl2, tt, key, w, accepted) ==
    LET i == FindRow(tbl1, tt, key, w)
        j == FindRow(tbl2, tt, key, w)
    IN /\ j # 0
       /\ tbl2[j].total_triggers = (IF i = 0 THEN 0 ELSE tbl1[i].total_triggers) + 1
       /\ i # 0 => /\ tbl2[j].alpha = tbl1[i].alpha + (IF accepted THEN 1 ELSE 0)
                   /\ tbl2[j].beta = tbl1[i].beta + (IF accepted THEN 0 ELSE 1)

\* C8: a feedback request that reports success has adjusted the rule's
\* weight, has incremented the belief record of (task type, context key,
\* window) and has appended one feedback-log entry, all three.
C8_AllThreeTogether ==
    [][(FeedbackStep /\ last'.result.success)
       => /\ last'.rule_id \in DOMAIN rules
          /\ rules'[last'.rule_id].current_probability_weight
                = AdjustWeight(rules[last'.rule_id].current_probability_weight,
                               AcceptAction(last'))
          /\ BeliefBumped(beliefs, beliefs', last'.task_type, last'.context_key,
                          last'.timing_window, AcceptAction(last'))
          /\ Len(feedback_log') = Len(feedback_log) + 1]_vars

(***************************************************************************)
(* Properties of the optimizer (SpecSearch).                               *)
(***************************************************************************)
AllRewardsNonNegative(cands) ==
    \A i \in 1..Len(cands) : \A k \in 1..Len(cands[i].options) :
        cands[i].options[k].expected_reward >= 0

RECURSIVE SumOfBest(_)
\* the sum over all candidates of the candidate's largest single-option reward
SumOfBest(cands) ==
    IF cands = <<>> THEN 0
    ELSE LET task == cands[1]
             R == {task.options[k].expected_reward : k \in 1..Len(task.options)}
         IN (IF R = {} THEN 0 ELSE CHOOSE r \in R : \A q \in R : q <= r)
            + SumOfBest(Tail(cands))

\* C1: for a candidate list whose options all carry a non-negative reward
\* and the default node budget, optimize_schedule returns a total equal to
\* the sum of every candidate's largest option reward.
C1_TotalIsSumOfBest ==
    (/\ search_result # NoResult
     /\ max_nodes = DEFAULT_MAX_NODES
     /\ enable_pruning
     /\ AllRewardsNonNegative(candidates))
    => /\ ~search_result.res.raised
       /\ search_result.res.total_expected_reward = SumOfBest(candidates)

\* C2: with max_nodes = 10000 a search over at most 6 candidates with at
\* most 3 options each ends on an empty queue: it returns with
\* nodes_explored <= 10000 and search_completed = true.
C2_SearchCompletes ==
    (search_result # NoResult /\ max_nodes = DEFAULT_MAX_NODES)
    => /\ ~search_result.res.raised
       /\ search_result.res.nodes_explored <= DEFAULT_MAX_NODES
       /\ search_result.res.search_completed

\* the largest reward among the options of the task
MaxOptionReward(task) ==
    LET R == {task.options[k].expected_reward : k \in 1..Len(task.options)}
    IN CHOOSE r \in R : \A q \in R : q <= r

RECURSIVE SumOfMax(_, _)
\* the largest option rewards of the candidates from i on that have options
SumOfMax(cands, i) ==
    IF i > Len(cands) THEN 0
    ELSE (IF cands[i].options = <<>> THEN 0 ELSE MaxOptionReward(cands[i]))
         + SumOfMax(cands, i + 1)

\* entry is (task_id, window) with the window of an option of largest reward,
\* or (task_id, None) for a task without options
IsArgmax(entry, task) ==
    /\ entry[1] = task.task_id
    /\ IF task.options = <<>> THEN entry[2] = None
       ELSE \E k \in 1..Len(task.options) :
               /\ task.options[k].expected_reward = MaxOptionReward(task)
               /\ task.options[k].timing_window_minutes = entry[2]

\* C24: the search ends with nodes_explored <= max_nodes for every budget
\* max_nodes >= 0; when the loop is left with the budget used up and nodes
\* still queued, search_completed is false, and if no complete assignment
\* was popped the result is the per-candidate argmax: every candidate gets
\* an option of its largest reward, a candidate without options is skipped,
\* and the total is the sum of the chosen rewards.
C24_BudgetAndFallback ==
    search_result # NoResult
    => LET res == search_result.res
       IN /\ res.nodes_explored <= max_nodes
          /\ candidates # <<>> /\ ~res.raised
             => LET fin == SearchEnd(candidates, max_nodes, enable_pruning)
                IN fin.pq # <<>> /\ fin.nodes_explored >= max_nodes
                   => /\ ~res.search_completed
                      /\ ~fin.has_best
                         => /\ Len(res.schedule) = Len(candidates)
                            /\ \A i \in 1..Len(candidates) :
                                  IsArgmax(res.schedule[i], candidates[i])
                            /\ res.total_expected_reward = SumOfMax(candidates, 1)

\* a budget of two nodes ends a search over two candidates before a
\* complete assignment is popped; the second option is the better one
C24_Witness ==
    /\ search_result # NoResult
    /\ max_nodes = SmallBudget
    /\ Len(candidates) = 2
    /\ Len(candidates[1].options) = 2
    /\ candidates[1].options[1].expected_reward < candidates[1].options[2].expected_reward
    /\ candidates[2].options = <<>>
    /\ ~search_result.res.raised
    /\ ~search_result.res.search_completed
    /\ search_result.res.nodes_explored = SmallBudget
    /\ search_result.res.schedule
          = <<<<1, candidates[1].options[2].timing_window_minutes>>, <<2, None>>>>

Evaluated(priority) == last.op = "should_remind" /\ last.event.priority = priority

\* whole minutes from the evaluation's clock to the evaluated event's start
MinutesRemaining == (last.event.start_time - last.now) \div 2

\* C9: a high-priority event with now >= optimal_reminder_time is eligible
\* exactly when it was never reminded or its last reminder is at least the
\* minimum interval ago: 15 minutes when at most 30 (whole) minutes remain
\* until the event, 30 minutes when at most 120 remain, 120 minutes
\* otherwise; an eligible event has confidence 0.95.  With 20 minutes
\* remaining a last reminder 10 minutes ago is not eligible and one 16
\* minutes ago is eligible.
C9_HighPriorityInterval ==
    (/\ Evaluated("high")
     /\ last.event.optimal_reminder_time # None
     /\ last.now >= last.event.optimal_reminder_time)
    => LET interval == IF MinutesRemaining <= 30 THEN 15
                       ELSE IF MinutesRemaining <= 120 THEN 30 ELSE 120
           since == last.now - last.event.last_reminded_at
       IN /\ last.result.should_remind
                <=> \/ last.event.last_reminded_at = None
                    \/ since >= 2 * interval
          /\ last.result.should_remind => last.result.confidence = 95
          /\ (last.event.start_time - last.now = 40 /\ since = 20)
                => ~last.result.should_remind
          /\ (last.event.start_time - last.now = 40 /\ since = 32)
                => last.result.should_remind

\* 20 minutes remain, the last reminder was 16 minutes ago, and the event
\* was found eligible
C9_Witness ==
    /\ Evaluated("high")
    /\ last.event.start_time - last.now = 40
    /\ last.event.last_reminded_at = last.now - 32
    /\ last.result.should_remind
    /\ last.result.confidence = 95

\* C10: a low-priority event with reminder_count = 0 is eligible exactly
\* when now is within 15 minutes of optimal_reminder_time, or at most 30
\* minutes remain until the event, or the current location matches one of
\* the event's suggested contexts.
C10_LowPriorityAnyOf ==
    (Evaluated("low") /\ last.event.reminder_count = 0)
    => (last.result.should_remind
            <=> \/ /\ last.event.optimal_reminder_time # None
                   /\ Abs(last.event.optimal_reminder_time - last.now) <= 2 * 15
                \/ MinutesRemaining <= 30
                \/ ContextMatches(last.event, last.context))


\* C11: a low-priority event fires at most once: an evaluation of an event
\* whose reminder_count is 1 or more returns not eligible, whatever the time
\* and the context, and leaves the event as it was; the reminder_count of a
\* low-priority event never exceeds 1.
C11_LowPriorityOnce ==
    [][/\ (/\ last'.op = "should_remind"
            /\ last'.event.priority = "low"
            /\ last'.event.reminder_count >= 1)
           => (~last'.result.should_remind /\ events' = events)
       /\ events'[1].priority = "low" => events'[1].reminder_count <= 1]_vars

\* a low-priority event that was reminded at this clock value was evaluated
\* again, in a context that matches its suggested contexts, and refused
C11_Witness ==
    /\ Evaluated("low")
    /\ last.event.reminder_count = 1
    /\ last.event.last_reminded_at = last.now
    /\ ContextMatches(last.event, last.context)
    /\ ~last.result.should_remind

\* C12: a medium-priority event is eligible exactly when now is at or past
\* optimal_reminder_time, and the context is free (activity STILL at
\* location home or work) or at most 60 (whole) minutes remain until the
\* event, and it was never reminded or its last reminder is at least 180
\* minutes ago; an eligible event has confidence 0.75 when the context is
\* free and 0.65 otherwise.
C12_MediumPriority ==
    Evaluated("medium")
    => LET free == /\ Upper(last.context.activity_type) = S_STILL
                   /\ last.context.location_vector \in {S_home, S_work}
           due == /\ last.event.optimal_reminder_time # None
                  /\ last.now >= last.event.optimal_reminder_time
           rested == \/ last.event.last_reminded_at = None
                     \/ last.now - last.event.last_reminded_at >= 2 * 180
       IN /\ last.result.should_remind
                <=> (due /\ (free \/ MinutesRemaining <= 60) /\ rested)
          /\ last.result.should_remind
                => last.result.confidence = (IF free THEN 75 ELSE 65)

\* a medium-priority event more than an hour away, last reminded exactly
\* three hours ago, was found eligible in a free context
C12_Witness ==
    /\ Evaluated("medium")
    /\ MinutesRemaining > 60
    /\ last.event.last_reminded_at = last.now - 360
    /\ last.result.should_remind
    /\ last.result.confidence = 75

(***************************************************************************)
(* Properties of the calendar query of a decide request (SpecDecide).      *)
(***************************************************************************)
\* the event is completed, dismissed, or its start time has passed
Done(event, t) ==
    \/ event.completed # 0
    \/ event.dismissed # 0
    \/ (event.start_time # None /\ event.start_time < t)

\* C13: Done is terminal for every priority tier: a decide request made
\* when an event is completed, dismissed, or past its start time returns no
\* reminder for the event and leaves its row, reminder_count and
\* last_reminded_at included, as it was.
C13_DoneIsTerminal ==
    [][last'.op = "infer_tasks"
       => \A i \in 1..Len(events) :
            Done(events[i], now)
            => /\ events'[i] = events[i]
               /\ \A k \in 1..Len(last'.result) :
                    /\ last'.result[k].rule_id # RuleOfEvent(rules, events[i].event_id)
                    /\ last'.result[k].task_name # events[i].title]_vars

\* a decide request in a matching context found a never-reminded
\* high-priority event whose start time had passed, and returned other tasks
C13_Witness ==
    /\ last.op = "infer_tasks"
    /\ events[1].priority = "high"
    /\ events[1].start_time < last.now
    /\ events[1].completed = 0 /\ events[1].dismissed = 0
    /\ events[1].reminder_count = 0
    /\ ContextMatches(events[1], last.context)
    /\ Len(last.result) > 0

(***************************************************************************)
(* Properties of concurrent feedback requests (SpecRace).                  *)
(***************************************************************************)
\* no request is in flight
Quiescent == \A p \in DOMAIN sessions : sessions[p].pc \in {"idle", "done"}

\* the completed requests with the given outcome
Completed(accepted) ==
    {p \in DOMAIN sessions : sessions[p].pc = "done" /\ sessions[p].accepted = accepted}

\* rows of the triple the requests address
RaceRows ==
    {i \in 1..Len(beliefs) : /\ beliefs[i].task_type = "Gym"
                             /\ beliefs[i].context_key = RaceKey
                             /\ beliefs[i].timing_window = APPLY_FEEDBACK_WINDOW}

\* the parameters the record of the triple started from: those of the table
\* at the start, or one of the two priors for a record created since
StartedFrom(a, b, tt) ==
    LET i0 == FindRow(last.beliefs0, "Gym", RaceKey, APPLY_FEEDBACK_WINDOW)
    IN IF i0 # 0
       THEN /\ a = last.beliefs0[i0].alpha
            /\ b = last.beliefs0[i0].beta
            /\ tt = last.beliefs0[i0].total_triggers
       ELSE <<a, b>> \in {OPTIMIZER_PRIOR, LEARNING_PRIOR} /\ tt = 0

\* C14: no feedback update is lost: whenever N feedback requests for one
\* triple have run, in any interleaving, and none is in flight, the record
\* of the triple has alpha raised by the number of accepts, beta by the
\* number of rejects, and total_triggers by N.
C14_NoLostUpdate ==
    (Quiescent /\ last.n > 0)
    => \E i \in RaceRows :
         StartedFrom(beliefs[i].alpha - Cardinality(Completed(TRUE)),
                     beliefs[i].beta - Cardinality(Completed(FALSE)),
                     beliefs[i].total_triggers - last.n)

\* C15: there is at most one record per (task_type, context_key,
\* timing_window) triple, also after two requests ran get-or-create for the
\* same unseen triple at the same time.
C15_OneRecordPerTriple ==
    \A i, j \in 1..Len(beliefs) :
        (/\ beliefs[i].task_type = beliefs[j].task_type
         /\ beliefs[i].context_key = beliefs[j].context_key
         /\ beliefs[i].timing_window = beliefs[j].timing_window) => i = j

\* request p writes its rule update in this step
WritesRule(p) == sessions[p].pending /\ ~sessions'[p].pending

\* C16: the weight of a rule that starts in [0, 1] stays in [0, 1] through
\* any sequence of accept and reject feedback: an accept sets it to
\* min(1.0, weight + 0.05) and a reject to max(0.0, weight - 0.10), weight
\* being the weight the request read (hundredths in the model).
C16_WeightInUnitInterval ==
    [][/\ \A r \in DOMAIN rules' :
            /\ rules'[r].current_probability_weight >= 0
            /\ rules'[r].current_probability_weight <= 100
       /\ \A p \in DOMAIN sessions :
            WritesRule(p)
            => LET weight == sessions[p].old_weight
               IN rules'[1].current_probability_weight
                    = IF sessions[p].accepted
                      THEN (IF weight + 5 > 100 THEN 100 ELSE weight + 5)
                      ELSE (IF weight - 10 < 0 THEN 0 ELSE weight - 10)]_vars

\* two accepts are complete, one that read weight 0.95 and then one that
\* read weight 1.0: the weight is 1.0
C16_Witness ==
    /\ \E p \in DOMAIN sessions :
          /\ sessions[p].pc = "done" /\ sessions[p].accepted
          /\ sessions[p].old_weight = 95
    /\ \E p \in DOMAIN sessions :
          /\ sessions[p].pc = "done" /\ sessions[p].accepted
          /\ sessions[p].old_weight = 100
    /\ rules[1].current_probability_weight = 100

\* total_triggers of row i at the start (0 for a row created since)
InitialTriggers(i) ==
    IF i <= Len(last.beliefs0) THEN last.beliefs0[i].total_triggers ELSE 0

\* C17: in every reachable state every belief record has alpha >= 1 and
\* beta >= 1 and confidence alpha / (alpha + beta) strictly between 0 and 1;
\* no step decreases alpha or beta or deletes a record; total_triggers is
\* the number of feedback updates applied to the record.
C17_BeliefRecords ==
    [][/\ Len(beliefs') >= Len(beliefs)
       /\ \A i \in 1..Len(beliefs') :
            /\ beliefs'[i].alpha >= 1
            /\ beliefs'[i].beta >= 1
            /\ 0 < beliefs'[i].alpha
            /\ beliefs'[i].alpha < beliefs'[i].alpha + beliefs'[i].beta
            /\ beliefs'[i].total_triggers = InitialTriggers(i) + last'.applied[i]
       /\ \A i \in 1..Len(beliefs) :
            /\ beliefs'[i].task_type = beliefs[i].task_type
            /\ beliefs'[i].context_key = beliefs[i].context_key
            /\ beliefs'[i].timing_window = beliefs[i].timing_window
            /\ beliefs'[i].alpha >= beliefs[i].alpha
            /\ beliefs'[i].beta >= beliefs[i].beta]_vars

(***************************************************************************)
(* Properties of the rule matcher (SpecMatch).                             *)
(***************************************************************************)
\* the last request was an _evaluate_rule call
MatchCall == last.op = "evaluate_rule"

\* the predicates the trigger condition declares: its standard keys and the
\* pairs of its custom dictionary
Declared(trigger) ==
    {<<"key", key>> : key \in TRIGGER_KEYS \cap DOMAIN trigger}
    \cup (IF "custom" \in DOMAIN trigger
          THEN {<<"custom", key>> : key \in DOMAIN trigger.custom}
          ELSE {})

\* the declared predicate holds in the context; a custom pair holds when the
\* context carries the key with the rule's value
PredicateHolds(pred, trigger, context) ==
    IF pred[1] = "key" THEN CheckPasses(pred[2], trigger, context)
    ELSE /\ pred[2] \in DOMAIN context.additional_data
         /\ context.additional_data[pred[2]] = trigger.custom[pred[2]]

Holding(trigger, context) ==
    {pred \in Declared(trigger) : PredicateHolds(pred, trigger, context)}

\* C18: _evaluate_rule returns score = matched predicates / predicates
\* checked, 0 when the rule declares no predicate, and matches exactly when
\* score >= 0.8; so a rule with one to four declared predicates matches only
\* if all of them hold, and a rule with five matches when four hold.
C18_ScoreAndMatches ==
    MatchCall
    => LET trigger == last.rule.trigger_condition
           declared == Declared(trigger)
           holding == Holding(trigger, last.context)
           r == last.result
       IN /\ r.successful_checks = Cardinality(holding)
          /\ r.successful_checks <= r.total_checks
          /\ declared = {} => (r.total_checks = 0 /\ ~r.matches)
          /\ r.matches <=> (r.total_checks > 0
                            /\ 5 * r.successful_checks >= 4 * r.total_checks)
          /\ (Cardinality(declared) \in 1..4 /\ r.matches) => holding = declared
          /\ (Cardinality(declared) = 5 /\ Cardinality(holding) >= 4) => r.matches

\* C19: every declared predicate counts in total_checks, each custom pair
\* included, whether or not the context carries the key; a custom pair whose
\* key the context lacks is a failed check.
C19_EveryDeclaredCounted ==
    MatchCall
    => LET trigger == last.rule.trigger_condition
       IN /\ last.result.total_checks = Cardinality(Declared(trigger))
          /\ last.result.successful_checks
                = Cardinality(Holding(trigger, last.context))

\* C20: for a time range start-end and the time of day t of the context:
\* when start <= end the time predicate holds exactly for start <= t <= end;
\* when start > end exactly for t >= start or t <= end; a range that does
\* not parse makes the predicate fail (and the call still returns).
C20_TimeRange ==
    (MatchCall /\ "time_range" \in DOMAIN last.rule.trigger_condition)
    => LET range == last.rule.trigger_condition.time_range
           t == 60 * last.context.tod + last.context.second
           holds == "time_range" \in last.result.matched_conditions
       IN IF ~range.parses THEN ~holds /\ last.result.total_checks >= 1
          ELSE IF range.start <= range.end
          THEN holds <=> (60 * range.start <= t /\ t <= 60 * range.end)
          ELSE holds <=> (t >= 60 * range.start \/ t <= 60 * range.end)

\* the range 22:00-06:00 held at 06:00:00 for a rule whose only predicate it
\* is, and the rule matched
C20_Witness ==
    /\ MatchCall
    /\ DOMAIN last.rule.trigger_condition = {"time_range"}
    /\ last.rule.trigger_condition.time_range = TimeRange(22 * 60, 6 * 60)
    /\ last.context.tod = 6 * 60 /\ last.context.second = 0
    /\ last.result.matches

(***************************************************************************)
(* Properties of the rule loop of a decide request (SpecSuggest).          *)
(***************************************************************************)
\* the list holds a task of rule i
Suggested(tasks, i) == \E k \in 1..Len(tasks) : tasks[k].rule_id = i

\* C21: a rule that is not linked to a calendar event is in the output of a
\* decide request exactly when it is active, the matcher reports matches,
\* base_confidence = weight x score is at least 0.6, and base_confidence is
\* at least 0.7 or the confidence of the window the timing model chooses is
\* at least 0.6 (weight in hundredths, confidence in thousandths).
C21_SuggestedExactlyWhen ==
    [][last'.op = "infer_tasks"
       => \A i \in 1..Len(rules) :
            rules[i].calendar_event_id = None
            => LET m == EvaluateRule(rules[i], last'.context)
                   weight == rules[i].current_probability_weight
                   chosen == GetOptimalTiming(beliefs, rules[i].task_name,
                                              last'.context).result
               IN Suggested(last'.result, i)
                  <=> /\ rules[i].is_active
                      /\ m.matches
                      /\ weight * m.successful_checks >= 60 * m.total_checks
                      /\ \/ weight * m.successful_checks >= 70 * m.total_checks
                         \/ chosen.confidence >= 600]_vars

\* a decide request in the home context returned rule 3 (weight 0.8, score
\* 4/5) on the strength of its window, and not rule 1, whose weight 0.65
\* passes the first threshold and whose windows are at confidence 0.4
C21_Witness ==
    /\ last.op = "infer_tasks"
    /\ last.context = HomeContext
    /\ rules[1].is_active /\ rules[1].current_probability_weight = 65
    /\ FindRow(beliefs, "Gym", OptimizerContextKey(HomeContext), 30) # 0
    /\ beliefs[FindRow(beliefs, "Gym", OptimizerContextKey(HomeContext), 30)].beta = 6
    /\ ~Suggested(last.result, 1)
    /\ Suggested(last.result, 3)

(***************************************************************************)
(* Properties of the optimization step of a decide request (SpecSuggest).  *)
(***************************************************************************)
\* suggested_tasks of a decide request: the tasks of the rule loop followed
\* by the calendar reminders, before the optimization step or the sort
Candidates(context, t) ==
    RuleTasksFrom(rules, beliefs, context, 1).tasks
        \o CalendarReminders(events, rules, context, t).tasks

\* the try block of the optimization step is left through except
OptimizerFails(tasks) ==
    \/ ~HasAttr(tasks[1], "timing_options")
    \/ optimize_schedule(SearchCandidates(tasks, 1), DEFAULT_MAX_NODES, TRUE).raised

\* the task carries a quality flag that says the result is not optimal
Degraded(task) ==
    /\ HasAttr(task, "search_metadata")
    /\ task.search_metadata.optimization_quality # "optimal"

\* C22: when the schedule optimizer fails during a decide request, the
\* request returns all candidates ranked by confidence x timing confidence,
\* and every returned suggestion carries a quality flag that marks the
\* result as degraded.
C22_DegradedFlag ==
    [][/\ last'.op = "infer_tasks"
       /\ last'.enable_search
       /\ Len(Candidates(last'.context, last'.now)) > 1
       /\ OptimizerFails(Candidates(last'.context, last'.now))
       => /\ last'.result = SortTasks(Candidates(last'.context, last'.now))
          /\ \A k \in 1..Len(last'.result) : Degraded(last'.result[k])]_vars


\* the keyword arguments infer_tasks gives the constructor for the task of a
\* rule: the fields of the task and the per-window options
WithOptions(task, context) ==
    LET rule == rules[task.rule_id]
        timing == GetOptimalTiming(beliefs, rule.task_name, context).result
    IN task @@ [timing_options |->
                    RuleTimingOptions(BaseConfidence(rule, EvaluateRule(rule, context)),
                                      timing.all_windows, 1)]

\* the candidates of a decide request with their per-window options
Offered(context, t) ==
    LET tasks == Candidates(context, t)
    IN [k \in 1..Len(tasks) |-> WithOptions(tasks[k], context)]

\* C23: in a decide request with optimization enabled and more than one
\* candidate, the window of every returned suggestion is the window the
\* schedule optimizer assigns to it when run on all candidates with their
\* per-window options.
C23_OptimizerWindow ==
    [][/\ last'.op = "infer_tasks"
       /\ last'.enable_search
       /\ Len(Candidates(last'.context, last'.now)) > 1
       => LET res == optimize_schedule(
                         SearchCandidates(Offered(last'.context, last'.now), 1),
                         DEFAULT_MAX_NODES, TRUE)
          IN ~res.raised
             => \A k \in 1..Len(last'.result) :
                    last'.result[k].optimal_timing_window
                        = ChosenWindow(res.schedule, last'.result[k].rule_id)]_vars

(***************************************************************************)
(* Properties of the timing optimizer (SpecTiming).                        *)
(***************************************************************************)
\* C25: two get_optimal_timing calls in a row with the same task type and
\* the same context, with no feedback between them, return the same
\* (timing_window, confidence) pair, also when the first call creates the
\* belief records.
C25_SameCallSameTiming ==
    /\ last.op = "get_optimal_timing"
    /\ last.previous.op = "get_optimal_timing"
    /\ last.previous.context = last.context
    => /\ last.result.timing_window = last.previous.result.timing_window
       /\ last.result.confidence = last.previous.result.confidence

\* the second of two calls; the first call created the three records, the
\* feedback before it had used another context key
C25_Witness ==
    /\ last.op = "get_optimal_timing"
    /\ last.previous.op = "get_optimal_timing"
    /\ last.previous.context = last.context
    /\ last.n = 3
    /\ Len(beliefs) = Len(TIMING_WINDOWS) + 1
    /\ last.before = beliefs
    /\ \A k \in 1..Len(TIMING_WINDOWS) : beliefs[k + 1].total_triggers = 0

\* the UCB key of the option of window w in the list, in two-thousandths
WindowScore(opts, w) ==
    LET k == CHOOSE j \in 1..Len(opts) : opts[j].window = w
    IN 2 * Confidence3(opts[k].alpha, opts[k].beta)
       + Uncertainty3(opts[k].alpha, opts[k].beta)

\* the three windows hold the same alpha and the same beta
IdenticalBeliefs(opts) ==
    \A j, k \in 1..Len(opts) : opts[j].alpha = opts[k].alpha /\ opts[j].beta = opts[k].beta

\* C26: get_optimal_timing returns a window whose score
\* confidence + 0.5 x uncertainty is the largest of the three, the first of
\* [60, 30, 10] among equal scores; with identical beliefs in all three
\* windows it returns 60.
C26_BestWindow ==
    last.op = "get_optimal_timing"
    => LET opts == last.result.all_windows
           chosen == last.result.timing_window
       IN /\ \E k \in 1..Len(TIMING_WINDOWS) :
                /\ TIMING_WINDOWS[k] = chosen
                /\ \A j \in 1..Len(TIMING_WINDOWS) :
                      /\ WindowScore(opts, TIMING_WINDOWS[j]) <= WindowScore(opts, chosen)
                      /\ j < k => WindowScore(opts, TIMING_WINDOWS[j])
                                     < WindowScore(opts, chosen)
          /\ IdenticalBeliefs(opts) => chosen = 60

\* one accept on window 30 from the learning prior: windows 60 and 30 have
\* the same confidence, window 30 the larger uncertainty, and it is chosen
C26_Witness ==
    /\ last.op = "get_optimal_timing"
    /\ last.result.timing_window = 30
    /\ \E j, k \in 1..Len(TIMING_WINDOWS) :
          /\ last.result.all_windows[j].window = 60
          /\ last.result.all_windows[k].window = 30
          /\ last.result.all_windows[j].confidence = last.result.all_windows[k].confidence
          /\ last.result.all_windows[j].uncertainty < last.result.all_windows[k].uncertainty

\* C27: a decision computation changes no persisted state: after
\* get_optimal_timing returns, the belief table holds the same records with
\* the same alpha, beta and total_triggers as before the call, and the
\* rule weights are the same.
C27_DecisionWritesNothing ==
    [][last'.op = "get_optimal_timing" => beliefs' = beliefs /\ rules' = rules]_vars

(***************************************************************************)
(* Properties of the reminder time of a parsed task (SpecParse).           *)
(***************************************************************************)
\* an estimate in minutes, 0 when it was not made
MinutesOr0(estimate) == IF estimate = None THEN 0 ELSE estimate

\* C28: optimal_reminder_time = start_time - lead with
\* lead = prep + travel + buffer, buffer 60/30/15 minutes for
\* high/medium/low; lead is never less than 10 minutes, so the reminder time
\* is at least 10 minutes before the start.
C28_ReminderLead ==
    last.op = "get_optimal_reminder_time" /\ last.task.start_time # None
    => LET buffer == IF last.task.priority = "high" THEN 60
                     ELSE IF last.task.priority = "medium" THEN 30 ELSE 15
           lead == MinutesOr0(last.task.preparation_time_minutes)
                   + MinutesOr0(last.task.travel_time_minutes) + buffer
       IN /\ last.result = last.task.start_time - Minutes(lead)
          /\ lead >= 10
          /\ last.result <= last.task.start_time - Minutes(10)

\* a high-priority task with both estimates: 30 + 25 + 60 minutes
C28_Witness ==
    /\ last.op = "get_optimal_reminder_time"
    /\ last.task.priority = "high"
    /\ last.task.preparation_time_minutes = 30
    /\ last.task.travel_time_minutes = 25
    /\ last.task.start_time = 2000
    /\ last.result = 2000 - Minutes(115)

(***************************************************************************)
(* Properties of a created task (SpecCreate).                              *)
(***************************************************************************)
\* C29: a task created through create_task with scheduled time T and a
\* location context is suggested by a decide request whose context matches
\* the location and whose time is 15 minutes before T, and is not suggested
\* by one whose time is 45 minutes after T.
C29_SuggestedAroundScheduledTime ==
    /\ last.op = "infer_tasks"
    /\ Lower(last.context.location_vector) = Lower(last.location_context)
    => /\ last.offset = 0 - 15 => Suggested(last.result, 1)
       /\ last.offset = 45 => ~Suggested(last.result, 1)

\* the confidence get_optimal_timing reports for window w
ReportedConfidence(opts, w) ==
    opts[CHOOSE j \in 1..Len(opts) : opts[j].window = w].confidence

\* the feedback log is k rejects on window rejected followed by k accepts on
\* window accepted, all for the context key record_feedback derives from
\* the context
RejectsThenAccepts(log, context, k, rejected, accepted) ==
    /\ Len(log) = 2 * k
    /\ \A i \in 1..(2 * k) :
          /\ log[i].context_snapshot.context_key = LearningContextKey(context)
          /\ log[i].user_action = (IF i <= k THEN "rejected" ELSE "accepted")
          /\ log[i].context_snapshot.timing_window = (IF i <= k THEN rejected ELSE accepted)

\* C30: for a task type and a context without belief records, after k >= 1
\* rejects through record_feedback on one window and k accepts on another,
\* get_optimal_timing returns the accepted window, and reports a higher
\* confidence for it than for the rejected window.
C30_ShiftsToAcceptedWindow ==
    \A k \in 1..MaxTimingCalls, rejected, accepted \in TimingFeedbackWindows :
        /\ last.op = "get_optimal_timing"
        /\ last.n = 2 * k + 1
        /\ rejected # accepted
        /\ RejectsThenAccepts(feedback_log, last.context, k, rejected, accepted)
        => /\ last.result.timing_window = accepted
           /\ ReportedConfidence(last.result.all_windows, accepted)
                 > ReportedConfidence(last.result.all_windows, rejected)

(***************************************************************************)
(* Properties of the optimizer's result (SpecBudget).                      *)
(***************************************************************************)
\* the rewards an entry (task_id, window) can stand for: 0 for a skip, else
\* the reward of an option of the task with that window
EntryRewards(task, entry) ==
    IF entry[2] = None THEN {0}
    ELSE {task.options[k].expected_reward :
             k \in {j \in 1..Len(task.options) :
                       task.options[j].timing_window_minutes = entry[2]}}

RECURSIVE ScheduleTotals(_, _, _)
\* the totals of the first i entries of the schedule
ScheduleTotals(cands, sched, i) ==
    IF i = 0 THEN {0}
    ELSE {t + r : t \in ScheduleTotals(cands, sched, i - 1),
                  r \in EntryRewards(cands[i], sched[i])}

\* C31: every SearchResult returned by the search, from the loop or from
\* the greedy fallback, has one entry per input candidate in input order;
\* each entry carries None or the window of one of that candidate's own
\* options; and total_expected_reward is the sum of the rewards of the
\* chosen options, a skip adding zero.
C31_WellFormedSchedule ==
    (search_result # NoResult /\ ~search_result.res.raised)
    => LET res == search_result.res
       IN /\ Len(res.schedule) = Len(candidates)
          /\ \A i \in 1..Len(candidates) :
                /\ res.schedule[i][1] = candidates[i].task_id
                /\ EntryRewards(candidates[i], res.schedule[i]) # {}
          /\ res.total_expected_reward
                \in ScheduleTotals(candidates, res.schedule, Len(candidates))

\* a finished search over two candidates that skips the first, whose only
\* option has a negative reward, and gives the second its better window
C31_Witness ==
    /\ search_result # NoResult
    /\ ~search_result.res.raised
    /\ search_result.res.search_completed
    /\ max_nodes = DEFAULT_MAX_NODES
    /\ Len(candidates) = 2
    /\ Len(candidates[1].options) = 1
    /\ candidates[1].options[1].expected_reward < 0
    /\ Len(candidates[2].options) = 2
    /\ search_result.res.schedule = <<<<1, None>>, <<2, TIMING_WINDOWS[2]>>>>
    /\ search_result.res.total_expected_reward = 2

\* the run ended by itself: it returned and the loop was not cut by the budget
Finished(res) == ~res.raised /\ res.search_completed

\* C32: when the search of a candidate list finishes within the node
\* budget both with enable_pruning = true and with enable_pruning = false,
\* the two runs return the same total_expected_reward.
C32_PruningKeepsOptimum ==
    (search_result # NoResult /\ Finished(search_result.res))
    => Let(Search(candidates, max_nodes, ~enable_pruning),
           LAMBDA other : Finished(other)
                          => other.total_expected_reward
                                = search_result.res.total_expected_reward)

\* a pruned run that finished having discarded nodes the run without
\* pruning expands, on two candidates with a positive total
C32_Witness ==
    /\ search_result # NoResult
    /\ enable_pruning
    /\ Len(candidates) = 2
    /\ Finished(search_result.res)
    /\ search_result.res.total_expected_reward > 0
    /\ Let(Search(candidates, max_nodes, FALSE),
           LAMBDA other : /\ Finished(other)
                          /\ search_result.res.nodes_explored < other.nodes_explored
                          /\ other.total_expected_reward
                                = search_result.res.total_expected_reward)

(***************************************************************************)
(* Frame of the reminder policy (SpecRemind).                              *)
(***************************************************************************)
\* C33: an evaluation of the reminder policy changes the event only when
\* its result is eligible: then last_reminded_at becomes now and
\* reminder_count grows by exactly 1 and nothing else of the row changes;
\* an evaluation that returns not eligible, for whatever reason, leaves the
\* row as it was.  reminder_count never decreases.
C33_RemindFrame ==
    [][/\ last'.op = "should_remind"
          => IF last'.result.should_remind
             THEN events' = <<[events[1] EXCEPT !.last_reminded_at = now,
                                                !.reminder_count = events[1].reminder_count + 1]>>
             ELSE events' = events
       /\ events'[1].reminder_count >= events[1].reminder_count]_vars

\* a high-priority event was reminded and then evaluated again at the same
\* clock value: the second evaluation refused it as reminded too recently
\* and left the count and the time of the first
C33_Witness ==
    /\ Evaluated("high")
    /\ last.n = MaxSteps
    /\ last.event.last_reminded_at = last.now
    /\ ~last.result.should_remind
    /\ last.result.reasoning = "Reminded too recently"
    /\ events[1] = last.event
    /\ events[1].reminder_count \in {1, 2}

(***************************************************************************)
(* Order of the list a decide request returns (SpecDecide).                *)
(***************************************************************************)
\* confidence x timing_confidence of a returned task
Product(task) == task.confidence * task.timing_confidence

\* C34: the list returned by decide is in non-increasing order of
\* confidence x timing_confidence, with one candidate or several, with the
\* optimization switched off or on, and when the optimizer step fails.
C34_SortedByProduct ==
    last.op = "infer_tasks"
    => \A k \in 1..(Len(last.result) - 1) :
          Product(last.result[k]) >= Product(last.result[k + 1])

\* a request with the optimization switched on returned the tasks of the
\* two regular rules, the rule appended second ranked before the rule
\* appended first
C34_Witness ==
    /\ last.op = "infer_tasks"
    /\ last.enable_search
    /\ Len(last.result) = 2
    /\ last.result[1].rule_id = 2
    /\ last.result[2].rule_id = 1
    /\ Product(last.result[1]) > Product(last.result[2])

(***************************************************************************)
(* Properties of concurrent decide requests (SpecReminderRace).            *)
(***************************************************************************)
\* the shortest time between two reminders of the event when the later one
\* is given at clock value t, in half minutes
RefireInterval(event, t) ==
    IF event.priority = "high" THEN MinInterval(MinutesUntil(event, t))
    ELSE Minutes(180)

\* C35: when two decide requests evaluate the same event in any
\* interleaving, a low-priority event is found eligible at most once and
\* its reminder_count stays at most 1, and a high- or medium-priority
\* event is not found eligible twice within its minimum re-fire interval.
C35_NoDoubleReminder ==
    IF events[1].priority = "low"
    THEN Len(last.fired) <= 1 /\ events[1].reminder_count <= 1
    ELSE \A i, j \in 1..Len(last.fired) :
            i < j => Abs(last.fired[j] - last.fired[i])
                        >= RefireInterval(events[1], Max(last.fired[i], last.fired[j]))

(***************************************************************************)
(* Properties of decide requests on synced events (SpecSync).              *)
(***************************************************************************)
\* C36: whenever a decide request raises the reminder_count of an event
\* (and sets its last_reminded_at), the list the request returns holds a
\* suggestion for that event, also when the event has no linked rule.
C36_RecordedOnlyWhenDelivered ==
    [][last'.op = "infer_tasks"
       => \A i \in 1..Len(events) :
            events'[i].reminder_count > events[i].reminder_count
            => \E k \in 1..Len(last'.result) :
                  last'.result[k].task_name = events[i].title]_vars

(***************************************************************************)
(* The context key of the two services (SpecTiming).                       *)
(***************************************************************************)
\* C37: the key under which LearningService.record_feedback updates a
\* belief is the key under which get_optimal_timing reads the beliefs of
\* the same context, whatever the letter case and the spacing of the
\* activity and the location: every record a record_feedback call created
\* or changed carries the optimizer's key of the call's context.
C37_OneContextKey ==
    last.op = "record_feedback"
    => \A i \in 1..Len(beliefs) :
          (i > Len(last.before) \/ beliefs[i] # last.before[i])
          => beliefs[i].context_key = OptimizerContextKey(last.context)

C39_OneLogEntryPerFeedback ==
    [][(last'.op = "provide_feedback" /\ last'.n = last.n + 1 /\ last'.result.success)
       => Len(feedback_log') = Len(feedback_log) + 1]_vars

(***************************************************************************)
(* The evidence count of a belief record (SpecTiming).                     *)
(***************************************************************************)
\* C40: the evidence count reported for a belief record equals the number
\* of feedback updates applied to it, its total_triggers, whichever call
\* created the record: evidence_strength in every window of a
\* get_optimal_timing answer, and the feedback_count of
\* get_learning_summary for every record of the table.
C40_EvidenceIsTotalTriggers ==
    /\ last.op = "get_optimal_timing"
       => \A k \in 1..Len(last.result.all_windows) :
             last.result.all_windows[k].evidence_strength
                = last.result.all_windows[k].total_triggers
    /\ \A i \in 1..Len(beliefs) : feedback_count(beliefs[i]) = beliefs[i].total_triggers
====
